---- MODULE Spec2Model ----
(***************************************************************************)
(* Model of the Lingo.dev Deno SDK engine (src/src/mod.ts):                *)
(* LingoDotDevEngine, its chunker, its chunk translator client and the     *)
(* public localization operations built on _localizeRaw.                   *)
(*                                                                         *)
(* Specifications                                                          *)
(*   Spec           the public operations of one engine and the remote     *)
(*   SpecHtml       localizeHtml, both modes, with a remote that echoes    *)
(*   SpecConstruct  constructions of the three exported classes            *)
(*   SpecCounter    countWordsInRecord on nested values                    *)
(*   SpecChunker    extractPayloadChunks                                   *)
(*   SpecClient     localizeChunk on one response                          *)
(*                                                                         *)
(* Data representation                                                     *)
(*   string      a sequence of characters (one-character TLA+ strings)     *)
(*   value       [t, s, kids]: t is the JavaScript typeof/shape tag, s the *)
(*               characters of a string, kids the entries of an object or  *)
(*               array                                                     *)
(*   key         [p, i]: the property name `${p}_${i}`, or just p when     *)
(*               i = NoIndex (the name has no "_<digits>" part)            *)
(*   mapping     a JavaScript object as Object.entries lists it: a         *)
(*               sequence of entries [k, v] with pairwise distinct keys    *)
(***************************************************************************)
EXTENDS Integers, Sequences, FiniteSets, TLC

VARIABLES
    config,     \* this.config of the engine (EngineParams)
    arg,        \* argument of the pure function being exercised
    ret,        \* its return value
    call,       \* the public operation the caller invokes, with its arguments
    aborted,    \* signal.aborted of the caller's AbortController
    runs,       \* per slot: the activation of one operation over _localizeRaw
    promise,    \* the promise the caller holds for the invoked operation
    gathered,   \* Promise.all of batchLocalizeText: values so far, count left
    requests,   \* the requests handed to the network so far, in order
    constructed,            \* per class: engines constructed in this process
    hasWarnedDeprecation,   \* per deprecated class: its static flag
    console     \* the messages handed to console.warn so far, in order

vars == <<config, arg, ret, call, aborted, runs, promise, gathered, requests,
          constructed, hasWarnedDeprecation, console>>

\* ---------------------------------------------------------------- bounds
MaxEntries == 3     \* longest payload / array / chat that is enumerated
MaxBatch == 2       \* largest explicitly configured batchSize
MaxIdeal == 2       \* largest explicitly configured idealBatchItemSize
MaxItems == 2       \* longest object / array / chat handed to an operation

\* ------------------------------------------------------------- encodings
Undefined == -1     \* an option the caller left unset
NoIndex == -1       \* parseInt of a missing or non-numeric key part (NaN)

\* a property key with its reading as "prefix_index" (p, i) and as the
\* document path "root/indices#attribute" (p, path, attribute)
Key(p, i) == [p |-> p, i |-> i, path |-> <<>>, attribute |-> ""]

PathKey(root, indices, attribute) ==
    [p |-> root, i |-> NoIndex, path |-> indices, attribute |-> attribute]

Undef == [t |-> "undefined", s |-> <<>>, kids |-> <<>>]
Str(s) == [t |-> "string", s |-> s, kids |-> <<>>]
Num == [t |-> "number", s |-> <<>>, kids |-> <<>>]
Null == [t |-> "null", s |-> <<>>, kids |-> <<>>]
Obj(entries) == [t |-> "object", s |-> <<>>, kids |-> entries]
Arr(entries) == [t |-> "array", s |-> <<>>, kids |-> entries]

Entry(k, v) == [k |-> k, v |-> v]

Range(f) == {f[x] : x \in DOMAIN f}

Keys(m) == {m[x].k : x \in DOMAIN m}

HasKey(m, k) == \E x \in DOMAIN m : m[x].k = k

Get(m, k) == m[CHOOSE x \in DOMAIN m : m[x].k = k].v

\* ------------------------------------------------------------ Word-Counter
\* the characters \\s matches and trim() removes, as far as the inputs use them
IsWhitespace(c) == c \in {" ", "\t", "\n"}

\* filter(Boolean) left out: every piece is kept
keepAll(pieces) == pieces

RECURSIVE trimStart(_)
trimStart(s) ==
    IF s # <<>> /\ IsWhitespace(Head(s)) THEN trimStart(Tail(s)) ELSE s

RECURSIVE trimEnd(_)
trimEnd(s) ==
    IF s # <<>> /\ IsWhitespace(s[Len(s)])
    THEN trimEnd(SubSeq(s, 1, Len(s) - 1))
    ELSE s

trim(s) == trimEnd(trimStart(s))

\* String.prototype.split(/\s+/): the pieces between maximal whitespace runs
RECURSIVE splitFrom(_, _)
splitFrom(s, piece) ==
    IF s = <<>> THEN <<piece>>
    ELSE IF IsWhitespace(Head(s))
         THEN <<piece>> \o splitFrom(trimStart(s), <<>>)
         ELSE splitFrom(Tail(s), Append(piece, Head(s)))

splitWhitespace(s) == splitFrom(s, <<>>)

\* Array.prototype.filter(Boolean) on strings: drops the empty ones
filterBoolean(pieces) == SelectSeq(pieces, LAMBDA p : p # <<>>)

RECURSIVE countWordsInRecord(_)
RECURSIVE reduceCount(_, _)
\* Array.prototype.reduce((acc, item) => acc + countWordsInRecord(item), 0)
reduceCount(entries, acc) ==
    IF entries = <<>> THEN acc
    ELSE reduceCount(Tail(entries), acc + countWordsInRecord(Head(entries).v))

countWordsInRecord(payload) ==
    IF payload.t = "array" THEN reduceCount(payload.kids, 0)
    ELSE IF payload.t = "object" THEN reduceCount(payload.kids, 0)
    ELSE IF payload.t = "string"
         THEN Len(filterBoolean(splitWhitespace(trim(payload.s))))
         ELSE 0

\* ---------------------------------------------------------- configuration
\* a ?? b on an optional number
Coalesce(a, b) == IF a = Undefined THEN b ELSE a

\* a || b on a number: 0 is falsy
OrElse(a, b) == IF a = 0 THEN b ELSE a

\* ----------------------------------------------------------------- Chunker
\* a chunk is closed one comparison late: only once it holds more than batchSize
shouldCloseLate(cfg, currentChunkSize, currentChunkItemCount, isLast) ==
    \/ currentChunkSize > OrElse(cfg.idealBatchItemSize, 250)
    \/ currentChunkItemCount > OrElse(cfg.batchSize, 25)
    \/ isLast

\* a chunk is closed as soon as its word count reaches idealBatchItemSize
shouldCloseAtBudget(cfg, currentChunkSize, currentChunkItemCount, isLast) ==
    \/ currentChunkSize >= OrElse(cfg.idealBatchItemSize, 250)
    \/ currentChunkItemCount >= OrElse(cfg.batchSize, 25)
    \/ isLast

\* the condition under which extractPayloadChunks pushes currentChunk
shouldClose(cfg, currentChunkSize, currentChunkItemCount, isLast) ==
    \/ currentChunkSize > OrElse(cfg.idealBatchItemSize, 250)
    \/ currentChunkItemCount >= OrElse(cfg.batchSize, 25)
    \/ isLast

RECURSIVE chunkLoop(_, _, _, _, _, _)
\* the for loop of extractPayloadChunks from index i (1-based) on
chunkLoop(cfg, payloadEntries, i, result, currentChunk, currentChunkItemCount) ==
    IF i > Len(payloadEntries) THEN result
    ELSE IF payloadEntries[i].v.t = "string"
         THEN LET chunk1 == Append(currentChunk, payloadEntries[i])
                  count1 == currentChunkItemCount + 1
              IN  IF shouldClose(cfg, countWordsInRecord(Obj(chunk1)), count1,
                                 i = Len(payloadEntries))
                  THEN chunkLoop(cfg, payloadEntries, i + 1,
                                 Append(result, chunk1), <<>>, 0)
                  ELSE chunkLoop(cfg, payloadEntries, i + 1,
                                 result, chunk1, count1)
         ELSE chunkLoop(cfg, payloadEntries, i + 1,
                        result, currentChunk, currentChunkItemCount)

\* an empty chunk is pushed after the loop
extractPayloadChunksFlushed(cfg, payload) ==
    Append(chunkLoop(cfg, payload, 1, <<>>, <<>>, 0), <<>>)

extractPayloadChunks(cfg, payload) == chunkLoop(cfg, payload, 1, <<>>, <<>>, 0)

\* ------------------------------------------------------- enumerated inputs
S_empty == <<>>
S_one == <<"a">>
S_two == <<"a", " ", "b">>
S_padded == <<" ", "a", " ", " ", "b", " ">>

SourceStrings == {S_empty, S_one, S_two, S_padded}

NonStrings == {Num, Null, Obj(<<Entry(Key("inner", NoIndex), Str(S_two))>>)}

PayloadValues == {Str(s) : s \in SourceStrings} \cup NonStrings

ObjectKey(j) == Key("k", j)

\* every object with n entries whose values come from vals
ObjectsOfSize(n, vals) ==
    {[j \in 1..n |-> Entry(ObjectKey(j), f[j])] : f \in [1..n -> vals]}

ObjectsUpTo(n, vals) == UNION {ObjectsOfSize(m, vals) : m \in 0..n}

PartialConfigs ==
    [apiKey : {Str(<<"key">>)},
     apiUrl : {Undef},
     batchSize : {Undefined} \cup 1..MaxBatch,
     idealBatchItemSize : {Undefined} \cup 1..MaxIdeal]

\* the exported classes; the two deprecated ones extend LingoDotDevEngine
Classes == {"LingoDotDevEngine", "ReplexicaEngine", "LingoEngine"}

DeprecatedClasses == {"ReplexicaEngine", "LingoEngine"}

NoneConstructed == [c \in Classes |-> 0]

\* private static hasWarnedDeprecation = false
NoneWarned == [c \in DeprecatedClasses |-> FALSE]

\* ------------------------------------------------------------------ errors
Err(name, message) == [name |-> name, message |-> message]

NoError == Err("", <<>>)

\* new Error("targetLocale is required")
TargetLocaleRequired == Err("Error", <<"targetLocale is required">>)

\* what fetch rejects with once its signal is aborted
AbortError == Err("AbortError", <<"The operation was aborted">>)

\* reading a property of undefined
TypeError == Err("TypeError", <<"Cannot read properties of undefined">>)

\* Response.json() on a body that is not JSON
SyntaxError == Err("SyntaxError", <<"Unexpected token">>)

\* ------------------------------------------------------ JavaScript objects
Prop(name) == Key(name, NoIndex)

\* obj[name] of a JSON object: undefined when the property is absent
Field(obj, name) ==
    IF HasKey(obj.kids, Prop(name)) THEN Get(obj.kids, Prop(name)) ELSE Undef

\* ToBoolean on the values a JSON body can hold here
Truthy(v) ==
    /\ v.t \notin {"undefined", "null"}
    /\ ~(v.t = "string" /\ v.s = <<>>)

\* target[key] = value: an existing key keeps its place, a new one goes last
Assign(target, e) ==
    IF HasKey(target, e.k)
    THEN [x \in DOMAIN target |-> IF target[x].k = e.k THEN e ELSE target[x]]
    ELSE Append(target, e)

RECURSIVE AssignAll(_, _)
AssignAll(target, source) ==
    IF source = <<>> THEN target
    ELSE AssignAll(Assign(target, Head(source)), Tail(source))

\* Object.assign({}, ...objects)
RECURSIVE ObjectAssign(_, _)
ObjectAssign(target, objects) ==
    IF objects = <<>> THEN target
    ELSE ObjectAssign(AssignAll(target, Head(objects)), Tail(objects))

\* an array as an object keyed by its indices
ArrayOf(values) ==
    Arr([j \in 1..Len(values) |-> Entry(Key("", j - 1), values[j])])

\* ------------------------------------------------- Chunk Translator Client
Response(status, statusText, text, body) ==
    [status |-> status, statusText |-> statusText, text |-> text, body |-> body]

NoResponse == Response(0, <<>>, <<>>, Undef)

Returned(value) == [ok |-> TRUE, value |-> value, error |-> NoError]

Thrown(error) == [ok |-> FALSE, value |-> <<>>, error |-> error]

\* new Error("apiKey is required")
ApiKeyRequired == Err("Error", <<"apiKey is required">>)

DefaultApiUrl == Str(<<"https://engine.lingo.dev">>)

\* !config.apiKey: undefined, null and "" are falsy
validateEngineParams(partial) ==
    IF partial.apiKey.t \in {"undefined", "null"} \/ partial.apiKey.s = <<>>
    THEN Thrown(ApiKeyRequired)
    ELSE Returned(
        [apiKey |-> partial.apiKey,
         apiUrl |-> IF partial.apiUrl.t \in {"undefined", "null"}
                    THEN DefaultApiUrl ELSE partial.apiUrl,
         batchSize |-> Coalesce(partial.batchSize, 25),
         idealBatchItemSize |-> Coalesce(partial.idealBatchItemSize, 250)])

\* Response.ok
ResOk(res) == res.status >= 200 /\ res.status <= 299

\* the body's error is looked at before its data
localizeChunkErrorFirst(res) ==
    IF ~ResOk(res)
    THEN IF res.status >= 500 /\ res.status < 600
         THEN Thrown(Err("Error",
                  <<"Server error", " (", ToString(res.status), "): ">>
                  \o res.statusText \o <<". ">> \o res.text
                  \o <<". This may be due to temporary service issues.">>))
         ELSE IF res.status = 400
              THEN Thrown(Err("Error",
                       <<"Invalid request", ": ">> \o res.statusText))
              ELSE Thrown(Err("Error", res.text))
    ELSE IF res.body.t = "invalid" THEN Thrown(SyntaxError)
    ELSE IF res.body.t = "null" THEN Thrown(TypeError)
    ELSE IF Truthy(Field(res.body, "error"))
         THEN Thrown(Err("Error", Field(res.body, "error").s))
         ELSE IF Truthy(Field(res.body, "data"))
              THEN Returned(Field(res.body, "data").kids)
              ELSE Returned(<<>>)

\* localizeChunk from the point where fetch has resolved with res
localizeChunk(res) ==
    IF ~ResOk(res)
    THEN IF res.status >= 500 /\ res.status < 600
         THEN Thrown(Err("Error",
                  <<"Server error", " (", ToString(res.status), "): ">>
                  \o res.statusText \o <<". ">> \o res.text
                  \o <<". This may be due to temporary service issues.">>))
         ELSE IF res.status = 400
              THEN Thrown(Err("Error",
                       <<"Invalid request", ": ">> \o res.statusText))
              ELSE Thrown(Err("Error", res.text))
    ELSE IF res.body.t = "invalid" THEN Thrown(SyntaxError)
    ELSE IF res.body.t = "null" THEN Thrown(TypeError)
    ELSE IF ~Truthy(Field(res.body, "data")) /\ Truthy(Field(res.body, "error"))
         THEN Thrown(Err("Error", Field(res.body, "error").s))
         ELSE IF Truthy(Field(res.body, "data"))
              THEN Returned(Field(res.body, "data").kids)
              ELSE Returned(<<>>)

\* ---------------------------------------------------------------- promises
Pending == [state |-> "pending", value |-> Undef, error |-> NoError]

Fulfilled(value) == [state |-> "fulfilled", value |-> value, error |-> NoError]

Rejected(error) == [state |-> "rejected", value |-> Undef, error |-> error]

\* ------------------------------------------------------------ _localizeRaw
\* One activation of a public operation running _localizeRaw.
\*   pc      "unused" | "fetch" (awaiting the response for chunk i) | "done"
\*   signal  whether the operation handed the caller's signal to fetch
\*   raw     the promise of _localizeRaw, outcome that of the operation
UnusedRun ==
    [pc |-> "unused", op |-> "", targetLocale |-> "", payload |-> <<>>,
     hasCallback |-> FALSE, signal |-> FALSE,
     chunkedPayload |-> <<>>, workflowId |-> <<>>, i |-> 0,
     processedPayloadChunks |-> <<>>, progress |-> <<>>,
     res |-> NoResponse, raw |-> Pending, outcome |-> Pending]

\* Numbers are IEEE 754 doubles. A positive double is held as its 53
\* significant bits (first bit 1, most significant first) and a scale: the
\* value is the integer the bits spell, divided by 2^scale.
Significand == 53

\* the bits plus one; an all-ones sequence grows by one bit
increment(bits) ==
    LET zeroAt == {x \in DOMAIN bits : bits[x] = 0}
        last == CHOOSE x \in zeroAt : \A y \in zeroAt : y <= x
    IN  IF zeroAt = {} THEN <<1>> \o [x \in DOMAIN bits |-> 0]
        ELSE [x \in DOMAIN bits |->
                IF x < last THEN bits[x] ELSE IF x = last THEN 1 ELSE 0]

\* round to nearest, ties to even: bits holds the significant bits followed
\* by the bits to drop; sticky says that more non-zero bits follow
roundToNearestEven(bits, scale, sticky) ==
    LET kept == SubSeq(bits, 1, Significand)
        dropped == SubSeq(bits, Significand + 1, Len(bits))
        shifted == scale - Len(dropped)
        guard == dropped # <<>> /\ dropped[1] = 1
        rest == sticky \/ \E x \in 2..Len(dropped) : dropped[x] = 1
        up == guard /\ (rest \/ kept[Significand] = 1)
        sum == IF up THEN increment(kept) ELSE kept
    IN  IF Len(sum) > Significand
        THEN [bits |-> SubSeq(sum, 1, Significand), scale |-> shifted - 1]
        ELSE [bits |-> sum, scale |-> shifted]

\* the k binary digits of an integer below 2^k
bitsOf(q, k) == [j \in 1..k |-> (q \div 2 ^ (k - j)) % 2]

\* the next k binary digits of the fraction rem / n, and what is left over;
\* n < 2^12 and k <= 18 keep the product below 2^31
fractionBits(rem, n, k) ==
    [bits |-> bitsOf((rem * 2 ^ k) \div n, k), rem |-> (rem * 2 ^ k) % n]

\* how often rem must be doubled to reach n
RECURSIVE doublings(_, _)
doublings(rem, n) == IF rem >= n THEN 0 ELSE 1 + doublings(2 * rem, n)

\* a / b on doubles that hold the integers 0 < a <= b < 2^12: the leading
\* one of weight 2^-p, then 53 more digits of the quotient in three runs
divide(a, b) ==
    LET p == doublings(a, b)
        first == fractionBits(a * 2 ^ p - b, b, 18)
        second == fractionBits(first.rem, b, 18)
        third == fractionBits(second.rem, b, 17)
    IN  roundToNearestEven(<<1>> \o first.bits \o second.bits \o third.bits,
                           p + Significand, third.rem # 0)

\* the sum of two bit sequences of equal length, one bit longer; c[k] is
\* the carry out of the k lowest positions
addBits(x, y, carry) ==
    LET n == Len(x)
        c[k \in 0..n] ==
            IF k = 0 THEN carry
            ELSE (x[n + 1 - k] + y[n + 1 - k] + c[k - 1]) \div 2
    IN  <<c[n]>> \o [j \in 1..n |-> (x[j] + y[j] + c[n - j]) % 2]

zeros(k) == [x \in 1..k |-> 0]

stripZeros(bits) ==
    LET oneAt == {x \in DOMAIN bits : bits[x] = 1}
    IN  IF oneAt = {} THEN <<>>
        ELSE SubSeq(bits, CHOOSE x \in oneAt : \A y \in oneAt : x <= y, Len(bits))

\* x * 100 on doubles: 100 x = 64 x + 32 x + 4 x exactly, then rounded
times100(x) ==
    LET x64 == x.bits \o zeros(6)
        x32 == <<0>> \o x.bits \o zeros(5)
        x4 == zeros(5) \o x.bits \o zeros(2)
        exact == stripZeros(addBits(addBits(x64, x32, 0), x4, 0))
    IN  roundToNearestEven(exact, x.scale, FALSE)

\* the integer a bit sequence spells
toInteger(bits) ==
    LET n == Len(bits)
        v[k \in 0..n] == IF k = 0 THEN 0 ELSE 2 * v[k - 1] + bits[k]
    IN  v[n]

\* Math.round(x) for a double 0 < x < 2^31: the nearest integer, a tie going up
mathRound(x) ==
    LET whole == Significand - x.scale
    IN  IF whole < 0 THEN 0
        ELSE toInteger(SubSeq(x.bits, 1, whole)) + x.bits[whole + 1]

\* Math.round(((i + 1) / length) * 100), done being i + 1
percentageCompleted(done, length) == mathRound(times100(divide(done, length)))

\* the loop with fetch called without the signal
continueFromUnsignalled(run, idx, signalAborted) ==
    IF idx > Len(run.chunkedPayload)
    THEN [run EXCEPT !.pc = "done",
              !.raw = Fulfilled(Obj(ObjectAssign(<<>>, run.processedPayloadChunks)))]
    ELSE [run EXCEPT !.pc = "fetch", !.i = idx]

\* percentageCompleted, computed once for the short payloads
percentageTable ==
    [length \in 1..MaxEntries |->
        [done \in 1..length |-> percentageCompleted(done, length)]]

percentageOf(done, length) ==
    IF length <= MaxEntries THEN percentageTable[length][done]
    ELSE percentageCompleted(done, length)

\* the loop starts at the second chunk when there is one
continueFromSecond(run, idx, signalAborted) ==
    IF idx > Len(run.chunkedPayload)
    THEN [run EXCEPT !.pc = "done",
              !.raw = Fulfilled(Obj(ObjectAssign(<<>>, run.processedPayloadChunks)))]
    ELSE [run EXCEPT !.pc = "fetch",
                     !.i = IF idx = 1 /\ Len(run.chunkedPayload) > 1 THEN 2 ELSE idx]

\* the for loop of _localizeRaw at chunk idx (1-based): hand its request to
\* fetch, which rejects at once when its signal is already aborted, or
\* leave the loop and merge
continueFrom(run, idx, signalAborted) ==
    IF idx > Len(run.chunkedPayload)
    THEN [run EXCEPT !.pc = "done",
              !.raw = Fulfilled(Obj(ObjectAssign(<<>>, run.processedPayloadChunks)))]
    ELSE IF run.signal /\ signalAborted
         THEN [run EXCEPT !.pc = "done", !.i = idx, !.raw = Rejected(AbortError)]
         ELSE [run EXCEPT !.pc = "fetch", !.i = idx]

\* _localizeRaw up to its first await
localizeRawStart(cfg, run, workflowId, signalAborted) ==
    IF run.targetLocale = ""
    THEN [run EXCEPT !.pc = "done", !.raw = Rejected(TargetLocaleRequired)]
    ELSE continueFrom(
             [run EXCEPT !.chunkedPayload = extractPayloadChunks(cfg, run.payload),
                         !.workflowId = workflowId],
             1, signalAborted)

\* a chunk whose translation fails is awaited again
localizeRawResumeRetrying(run, res, signalAborted) ==
    LET r == localizeChunk(res)
        seen == [run EXCEPT !.res = res]
    IN  IF ~r.ok THEN seen
        ELSE continueFrom(
                 [seen EXCEPT !.processedPayloadChunks = Append(@, r.value)],
                 run.i + 1, signalAborted)

\* a chunk whose translation fails is left out and the loop goes on
localizeRawResumeSkipping(run, res, signalAborted) ==
    LET r == localizeChunk(res)
        seen == [run EXCEPT !.res = res]
    IN  continueFrom(
            IF r.ok THEN [seen EXCEPT !.processedPayloadChunks = Append(@, r.value)]
            ELSE seen,
            run.i + 1, signalAborted)

\* _localizeRaw from the response res for chunk run.i up to its next await;
\* abortedInCallback: the caller's progress callback aborted the signal
localizeRawResume(run, res, signalAborted) ==
    LET r == localizeChunk(res)
        seen == [run EXCEPT !.res = res]
    IN  IF ~r.ok
        THEN [seen EXCEPT !.pc = "done", !.raw = Rejected(r.error)]
        ELSE continueFrom(
                 [seen EXCEPT
                     !.progress =
                         IF run.hasCallback
                         THEN Append(@, [progress |->
                                            percentageOf(run.i,
                                                Len(run.chunkedPayload)),
                                         sourceChunk |-> run.chunkedPayload[run.i],
                                         processedChunk |-> r.value])
                         ELSE @,
                     !.processedPayloadChunks = Append(@, r.value)],
                 run.i + 1, signalAborted)

\* ------------------------------------------------------------ localizeHtml
\* The document is held as the tree DOMParser makes of the html string, and
\* returned as the tree that outerHTML serialises.
TextNode(text) ==
    [nodeType |-> 3, tagName |-> "#text", attributes |-> <<>>,
     textContent |-> text, childNodes |-> <<>>]

Element(tagName, attributes, childNodes) ==
    [nodeType |-> 1, tagName |-> tagName, attributes |-> attributes,
     textContent |-> <<>>, childNodes |-> childNodes]

Document(lang, head, body) ==
    [t |-> "document", lang |-> lang,
     head |-> Element("head", <<>>, head), body |-> Element("body", <<>>, body)]

LOCALIZABLE_ATTRIBUTES(tagName) ==
    CASE tagName = "meta" -> <<"content">>
      [] tagName = "img" -> <<"alt">>
      [] tagName = "input" -> <<"placeholder">>
      [] tagName = "a" -> <<"title">>
      [] OTHER -> <<>>

UNLOCALIZABLE_TAGS == {"script", "style"}

\* n.nodeType === 1 || (n.nodeType === 3 && n.textContent?.trim())
isContent(n) == n.nodeType = 1 \/ (n.nodeType = 3 /\ trim(n.textContent) # <<>>)

\* the positions in childNodes of the nodes that pass the filter
RECURSIVE contentPositions(_, _)
contentPositions(childNodes, from) ==
    IF from > Len(childNodes) THEN <<>>
    ELSE (IF isContent(childNodes[from]) THEN <<from>> ELSE <<>>)
         \o contentPositions(childNodes, from + 1)

\* element.getAttribute(attr); an absent attribute (null) is as falsy as ""
getAttribute(element, attr) ==
    IF \E x \in DOMAIN element.attributes : element.attributes[x].k = attr
    THEN element.attributes[CHOOSE x \in DOMAIN element.attributes :
                                element.attributes[x].k = attr].v
    ELSE <<>>

setAttribute(element, attr, value) ==
    [element EXCEPT !.attributes =
        IF \E x \in DOMAIN @ : @[x].k = attr
        THEN [x \in DOMAIN @ |-> IF @[x].k = attr THEN Entry(attr, value) ELSE @[x]]
        ELSE Append(@, Entry(attr, value))]

RECURSIVE attributeEntries(_, _, _, _)
attributeEntries(element, attrs, root, indices) ==
    IF attrs = <<>> THEN <<>>
    ELSE (IF getAttribute(element, Head(attrs)) # <<>>
          THEN <<Entry(PathKey(root, indices, Head(attrs)),
                       Str(getAttribute(element, Head(attrs))))>>
          ELSE <<>>)
         \o attributeEntries(element, Tail(attrs), root, indices)

\* processNode on the node that getPath places at root/indices; unlocalizable:
\* one of its ancestors is a script or style element
RECURSIVE processNode(_, _, _, _)
RECURSIVE processNodes(_, _, _, _, _)
processNode(node, root, indices, unlocalizable) ==
    IF unlocalizable THEN <<>>
    ELSE IF node.nodeType = 3
         THEN IF trim(node.textContent) # <<>>
              THEN <<Entry(PathKey(root, indices, ""), Str(trim(node.textContent)))>>
              ELSE <<>>
         ELSE attributeEntries(node, LOCALIZABLE_ATTRIBUTES(node.tagName),
                               root, indices)
              \o processNodes(node.childNodes, contentPositions(node.childNodes, 1),
                              root, indices,
                              node.tagName \in UNLOCALIZABLE_TAGS)

\* forEach(processNode) over the filtered children at positions[j..]
processNodes(childNodes, positions, root, indices, unlocalizable) ==
    IF positions = <<>> THEN <<>>
    ELSE processNode(childNodes[Head(positions)], root,
                     Append(indices,
                            Len(contentPositions(childNodes, 1)) - Len(positions)),
                     unlocalizable)
         \o processNodes(childNodes, Tail(positions), root, indices, unlocalizable)

\* extractedContent after the head and body passes
extractedContent(doc) ==
    processNodes(doc.head.childNodes, contentPositions(doc.head.childNodes, 1),
                 "head", <<>>, FALSE)
    \o processNodes(doc.body.childNodes, contentPositions(doc.body.childNodes, 1),
                    "body", <<>>, FALSE)

\* the node at a location: the child positions leading to it from element
RECURSIVE nodeAt(_, _)
nodeAt(element, location) ==
    IF location = <<>> THEN element
    ELSE nodeAt(element.childNodes[Head(location)], Tail(location))

RECURSIVE replaceAt(_, _, _)
replaceAt(element, location, node) ==
    IF location = <<>> THEN node
    ELSE [element EXCEPT !.childNodes[Head(location)] =
             replaceAt(@, Tail(location), node)]

\* the for loop over the indices of a path: current is siblings[index] or
\* null, and becomes the parent only when it is an element
RECURSIVE followPath(_, _, _, _, _)
followPath(rootElement, indices, parent, current, found) ==
    IF indices = <<>> THEN [found |-> found, location |-> current]
    ELSE LET positions == contentPositions(nodeAt(rootElement, parent).childNodes, 1)
             index == Head(indices)
         IN  IF index >= 0 /\ index < Len(positions)
             THEN LET next == Append(parent, positions[index + 1])
                  IN  followPath(rootElement, Tail(indices),
                                 IF nodeAt(rootElement, next).nodeType = 1
                                 THEN next ELSE parent,
                                 next, TRUE)
             ELSE followPath(rootElement, Tail(indices), parent, <<>>, FALSE)

\* node.textContent = value
setTextContent(node, value) ==
    IF node.nodeType = 3 THEN [node EXCEPT !.textContent = value]
    ELSE [node EXCEPT !.childNodes =
             IF value = <<>> THEN <<>> ELSE <<TextNode(value)>>]

NotAFunction == Err("TypeError", <<"current.setAttribute is not a function">>)

\* one round of Object.entries(localizedContent).forEach
injectEntry(doc, e) ==
    LET inHead == e.k.p = "head"
        rootElement == IF inHead THEN doc.head ELSE doc.body
        at == followPath(rootElement, e.k.path, <<>>, <<>>, TRUE)
        current == nodeAt(rootElement, at.location)
        put(node) == IF inHead
                     THEN [doc EXCEPT !.head = replaceAt(@, at.location, node)]
                     ELSE [doc EXCEPT !.body = replaceAt(@, at.location, node)]
    IN  IF ~at.found THEN Returned(doc)
        ELSE IF e.k.attribute # ""
             THEN IF current.nodeType = 1
                  THEN Returned(put(setAttribute(current, e.k.attribute, e.v.s)))
                  ELSE Thrown(NotAFunction)
             ELSE Returned(put(setTextContent(current, e.v.s)))

RECURSIVE injectAll(_, _)
injectAll(doc, entries) ==
    IF entries = <<>> THEN Returned(doc)
    ELSE LET r == injectEntry(doc, Head(entries))
         IN  IF r.ok THEN injectAll(r.value, Tail(entries)) ELSE r

\* localizeHtml from the resolution of _localizeRaw with localizedContent
updateDocument(doc, targetLocale, localizedContent) ==
    injectAll([doc EXCEPT !.lang = targetLocale], localizedContent)

\* ------------------------------------------------------ localizeHtmlSimple
\* The html string is a sequence of characters; a locale code and a
\* translated value are single symbols of it.
WordChars ==
    {"a", "b", "c", "d", "e", "f", "g", "h", "i", "j", "k", "l", "m", "n", "o",
     "p", "q", "r", "s", "t", "u", "v", "w", "x", "y", "z", "_",
     "0", "1", "2", "3", "4", "5", "6", "7", "8", "9"}

startsWith(s, i, part) ==
    /\ i + Len(part) - 1 <= Len(s)
    /\ SubSeq(s, i, i + Len(part) - 1) = part

\* the first position from i on at which part occurs in s, 0 when there is none
RECURSIVE indexOf(_, _, _)
indexOf(s, part, i) ==
    IF i + Len(part) - 1 > Len(s) THEN 0
    ELSE IF startsWith(s, i, part) THEN i
    ELSE indexOf(s, part, i + 1)

\* replace(/<tag\b[^<]*(?:(?!<\/tag>)<[^<]*)*<\/tag>/gi, "") from position i
RECURSIVE removeElements(_, _, _)
removeElements(s, tag, i) ==
    IF i > Len(s) THEN <<>>
    ELSE LET open == <<"<">> \o tag
             close == <<"<", "/">> \o tag \o <<">">>
             after == i + Len(open)
             end == indexOf(s, close, after)
         IN  IF /\ startsWith(s, i, open)
                /\ after <= Len(s)
                /\ s[after] \notin WordChars
                /\ end # 0
             THEN removeElements(s, tag, end + Len(close))
             ELSE <<s[i]>> \o removeElements(s, tag, i + 1)

\* match(/>([^<]+)</g) from position i: the captured groups
RECURSIVE textMatches(_, _)
textMatches(s, i) ==
    IF i > Len(s) THEN <<>>
    ELSE IF s[i] # ">" THEN textMatches(s, i + 1)
    ELSE LET j == indexOf(s, <<"<">>, i + 1)
         IN  IF j = 0 THEN <<>>
             ELSE IF j = i + 1 THEN textMatches(s, i + 1)
             ELSE <<SubSeq(s, i + 1, j - 1)>> \o textMatches(s, j + 1)

\* matchAll(/name="([^"]+)"/gi) from position i: the captured groups
RECURSIVE attributeMatches(_, _, _)
attributeMatches(s, name, i) ==
    IF i > Len(s) THEN <<>>
    ELSE LET lead == name \o <<"=", "\"">>
             from == i + Len(lead)
             quote == indexOf(s, <<"\"">>, from)
         IN  IF startsWith(s, i, lead) /\ quote > from
             THEN <<SubSeq(s, from, quote - 1)>> \o attributeMatches(s, name, quote + 1)
             ELSE attributeMatches(s, name, i + 1)

\* the key `attr_${patternIndex}_${counter}`
AttrKey(patternIndex, counter) ==
    [p |-> "attr", i |-> patternIndex, path |-> <<counter>>, attribute |-> ""]

\* textMatches.forEach: the trimmed texts that are not empty, under text_N
RECURSIVE textEntries(_, _)
textEntries(matches, counter) ==
    IF matches = <<>> THEN <<>>
    ELSE IF trim(Head(matches)) # <<>>
         THEN <<Entry(Key("text", counter), Str(trim(Head(matches))))>>
              \o textEntries(Tail(matches), counter + 1)
         ELSE textEntries(Tail(matches), counter)

\* the loop over the matches of one attribute pattern
RECURSIVE attributeValueEntries(_, _, _)
attributeValueEntries(matches, patternIndex, counter) ==
    IF matches = <<>> THEN <<>>
    ELSE IF trim(Head(matches)) # <<>>
         THEN <<Entry(AttrKey(patternIndex, counter), Str(Head(matches)))>>
              \o attributeValueEntries(Tail(matches), patternIndex, counter + 1)
         ELSE attributeValueEntries(Tail(matches), patternIndex, counter)

attributePatterns ==
    <<<<"t", "i", "t", "l", "e">>, <<"a", "l", "t">>,
      <<"p", "l", "a", "c", "e", "h", "o", "l", "d", "e", "r">>,
      <<"c", "o", "n", "t", "e", "n", "t">>>>

\* attributePatterns.forEach from pattern patternIndex (0-based) on
RECURSIVE attributePatternEntries(_, _, _)
attributePatternEntries(html, patternIndex, counter) ==
    IF patternIndex >= Len(attributePatterns) THEN <<>>
    ELSE LET found == attributeValueEntries(
                          attributeMatches(html, attributePatterns[patternIndex + 1], 1),
                          patternIndex, counter)
         IN  found \o attributePatternEntries(html, patternIndex + 1,
                                              counter + Len(found))

\* extractedContent of localizeHtmlSimple
simpleExtractedContent(html) ==
    LET tempHtml == removeElements(
                        removeElements(html, <<"s", "c", "r", "i", "p", "t">>, 1),
                        <<"s", "t", "y", "l", "e">>, 1)
        texts == textEntries(textMatches(tempHtml, 1), 0)
    IN  texts \o attributePatternEntries(html, 0, Len(texts))

\* replace(/<html([^>]*)>/i, `<html$1 lang="${params.targetLocale}">`)
replaceHtmlTag(html, targetLocale) ==
    LET open == indexOf(html, <<"<", "h", "t", "m", "l">>, 1)
        close == IF open = 0 THEN 0 ELSE indexOf(html, <<">">>, open + 5)
    IN  IF close = 0 THEN html
        ELSE SubSeq(html, 1, close - 1)
             \o <<" ", "l", "a", "n", "g", "=", "\"", targetLocale, "\"">>
             \o SubSeq(html, close, Len(html))

\* replace(new RegExp(escapedOriginal, "g"), value) from position i
RECURSIVE replaceAll(_, _, _, _)
replaceAll(s, original, value, i) ==
    IF i > Len(s) THEN <<>>
    ELSE IF startsWith(s, i, original)
         THEN value \o replaceAll(s, original, value, i + Len(original))
         ELSE <<s[i]>> \o replaceAll(s, original, value, i + 1)

\* Object.entries(localizedContent).forEach of localizeHtmlSimple
RECURSIVE replaceEntries(_, _, _)
replaceEntries(localizedHtml, extracted, entries) ==
    IF entries = <<>> THEN localizedHtml
    ELSE LET e == Head(entries)
         IN  replaceEntries(
                 IF HasKey(extracted, e.k) /\ Get(extracted, e.k).s # <<>>
                 THEN replaceAll(localizedHtml, Get(extracted, e.k).s, e.v.s, 1)
                 ELSE localizedHtml,
                 extracted, Tail(entries))

\* localizeHtmlSimple from the resolution of _localizeRaw with localizedContent
simpleLocalizedHtml(html, targetLocale, localizedContent) ==
    replaceEntries(replaceHtmlTag(html, targetLocale),
                   simpleExtractedContent(html), localizedContent)

\* -------------------------------------------------------- public operations
SingleOps ==
    {"localizeText", "localizeObject", "localizeStringArray", "localizeChat",
     "localizeHtml"}

\* localizeStringArray has no progressCallback and no signal parameter,
\* batchLocalizeText no progressCallback
AcceptsCallback(op) ==
    op \in {"localizeText", "localizeObject", "localizeChat", "localizeHtml"}

AcceptsSignal(op) == op # "localizeStringArray"

\* the flat payload each operation hands to _localizeRaw
payloadOf(op, c) ==
    CASE op = "localizeText" -> <<Entry(Prop("text"), Str(c.text))>>
      [] op = "localizeObject" -> c.obj
      [] op = "localizeStringArray" ->
            [j \in DOMAIN c.strings |-> Entry(Key("item", j - 1), Str(c.strings[j]))]
      [] op = "localizeChat" ->
            [j \in DOMAIN c.chat |-> Entry(Key("chat", j - 1), Str(c.chat[j].text))]
      [] op = "localizeHtml" ->
            IF c.domParser THEN extractedContent(c.doc)
            ELSE simpleExtractedContent(c.html)

ChatMessage(name, text) ==
    Obj(<<Entry(Prop("name"), name), Entry(Prop("text"), text)>>)

\* chat[parseInt(key.split("_")[1])] is undefined
chatMisses(chat, key) == key.i = NoIndex \/ key.i + 1 > Len(chat)

\* the promise of an async function that returned or threw
toPromise(r) == IF r.ok THEN Fulfilled(r.value) ELSE Rejected(r.error)

\* what each operation makes of the promise of _localizeRaw
outcomeOf(op, c, raw) ==
    IF raw.state # "fulfilled" THEN raw
    ELSE LET localized == raw.value.kids IN
         CASE op = "localizeText" ->
                Fulfilled(IF Truthy(Field(raw.value, "text"))
                          THEN Field(raw.value, "text")
                          ELSE Str(<<>>))
           [] op = "localizeObject" -> Fulfilled(raw.value)
           [] op = "localizeStringArray" ->
                Fulfilled(ArrayOf([j \in DOMAIN localized |-> localized[j].v]))
           [] op = "localizeChat" ->
                IF \E j \in DOMAIN localized : chatMisses(c.chat, localized[j].k)
                THEN Rejected(TypeError)
                ELSE Fulfilled(ArrayOf([j \in DOMAIN localized |->
                         ChatMessage(Str(c.chat[localized[j].k.i + 1].name),
                                     localized[j].v)]))
           [] op = "localizeHtml" ->
                IF c.domParser
                THEN toPromise(updateDocument(c.doc, c.targetLocale, localized))
                ELSE Fulfilled(Str(simpleLocalizedHtml(c.html, c.targetLocale,
                                                       localized)))

\* String.prototype.includes on a message
Includes(message, part) == \E j \in DOMAIN message : message[j] = part

\* recognizeLocale from the point where fetch has resolved with response
recognizeLocale(response) ==
    IF ~ResOk(response)
    THEN IF response.status >= 500 /\ response.status < 600
         THEN Thrown(Err("Error",
                  <<"Server error", " (", ToString(response.status), "): ">>
                  \o response.statusText
                  \o <<". This may be due to temporary service issues.">>))
         ELSE Thrown(Err("Error",
                  <<"Error recognizing locale", ": ">> \o response.statusText))
    ELSE IF response.body.t = "invalid" THEN Thrown(SyntaxError)
    ELSE Returned(Field(response.body, "locale"))

\* the try block of whoami from the point where fetch has resolved with res
whoamiTry(res) ==
    IF ResOk(res)
    THEN IF res.body.t = "invalid" THEN Thrown(SyntaxError)
         ELSE IF ~Truthy(Field(res.body, "email")) THEN Returned(Null)
         ELSE Returned(Obj(<<Entry(Prop("email"), Field(res.body, "email")),
                             Entry(Prop("id"), Field(res.body, "id"))>>))
    ELSE IF res.status >= 500 /\ res.status < 600
         THEN Thrown(Err("Error",
                  <<"Server error", " (", ToString(res.status), "): ">>
                  \o res.statusText
                  \o <<". This may be due to temporary service issues.">>))
         ELSE Returned(Null)

\* a catch block that turns every failure into null
whoamiCatchAll(error) == Fulfilled(Null)

\* the catch block of whoami, on the rejection of its try block
whoamiCatch(error) ==
    IF Includes(error.message, "Server error") THEN Rejected(error)
    ELSE Fulfilled(Null)

\* the promise of the operation, given the promise raw of its awaited part
\* (_localizeRaw, or the fetch and response handling of the direct operations)
settledOutcome(op, c, raw) ==
    IF op = "whoami"
    THEN IF raw.state = "rejected" THEN whoamiCatch(raw.error) ELSE raw
    ELSE IF op = "recognizeLocale" THEN raw
    ELSE outcomeOf(op, c, raw)

settle(run, c) == [run EXCEPT !.outcome = settledOutcome(run.op, c, run.raw)]

\* ------------------------------------------------------------- the remote
MaxLocales == 2     \* longest targetLocales sequence of batchLocalizeText

Slots == 1..MaxLocales

IdLength == 12

\* const chars of createId
chars ==
    <<"a", "b", "c", "d", "e", "f", "g", "h", "i", "j", "k", "l", "m",
      "n", "o", "p", "q", "r", "s", "t", "u", "v", "w", "x", "y", "z",
      "A", "B", "C", "D", "E", "F", "G", "H", "I", "J", "K", "L", "M",
      "N", "O", "P", "Q", "R", "S", "T", "U", "V", "W", "X", "Y", "Z",
      "0", "1", "2", "3", "4", "5", "6", "7", "8", "9">>

\* Math.floor(Math.random() * chars.length) for the calls of one createId:
\* Math.random() is below 1, so every draw is one of 0..61; two sequences
\* of draws are followed
RandomDraws ==
    {[j \in 1..IdLength |-> 0], [j \in 1..IdLength |-> (7 * j + 19) % Len(chars)]}

\* the token is one character short
createIdShort(draws) == [j \in 1..(IdLength - 1) |-> chars[draws[j] + 1]]

\* result += chars.charAt(...), IdLength times
createId(draws) == [j \in 1..IdLength |-> chars[draws[j] + 1]]

WorkflowIds == {createId(draws) : draws \in RandomDraws}

ForeignKey == Key("extra", NoIndex)

\* the translation the remote gives for a key, and a second, different one
Tr(k, locale) ==
    Str(<<"tr", locale, k.p, ToString(k.i), ToString(k.path), k.attribute>>)

Alt(k, locale) ==
    Str(<<"alt", locale, k.p, ToString(k.i), ToString(k.path), k.attribute>>)

Reverse(seq) == [j \in DOMAIN seq |-> seq[Len(seq) + 1 - j]]

\* keys of the payload that _localizeRaw sent or will send in other chunks
otherKeys(run) ==
    {run.payload[x].k : x \in {y \in DOMAIN run.payload : run.payload[y].v.t = "string"}}
        \ Keys(run.chunkedPayload[run.i])

\* the `data` mappings the remote answers chunk run.i with: every sent key
\* translated in order; in reverse order; the last key left out; a key
\* nobody sent added; a key of another chunk added
DataMappings(run) ==
    LET chunk == run.chunkedPayload[run.i]
        each == [j \in DOMAIN chunk |-> Entry(chunk[j].k, Tr(chunk[j].k, run.targetLocale))]
    IN  {each, Reverse(each), SubSeq(each, 1, Len(each) - 1),
         Append(each, Entry(ForeignKey, Tr(ForeignKey, run.targetLocale)))}
        \cup {Append(each, Entry(k, Alt(k, run.targetLocale))) : k \in otherKeys(run)}

JsonBody(data, error) ==
    Obj(  (IF data.t = "undefined" THEN <<>> ELSE <<Entry(Prop("data"), data)>>)
       \o (IF error.t = "undefined" THEN <<>> ELSE <<Entry(Prop("error"), error)>>))

Responses(run) ==
    {Response(200, <<"OK">>, <<>>, JsonBody(Obj(m), Undef)) : m \in DataMappings(run)}
    \cup {Response(200, <<"OK">>, <<>>, JsonBody(Undef, Undef)),
          Response(200, <<"OK">>, <<>>, JsonBody(Undef, Str(<<"quota exceeded">>))),
          Response(500, <<"Internal Server Error">>, <<"boom">>, Undef),
          Response(400, <<"Bad Request">>, <<>>, Undef)}

RecognizeResponses ==
    {Response(200, <<"OK">>, <<>>, Obj(<<Entry(Prop("locale"), Str(<<"es">>))>>)),
     Response(500, <<"Internal Server Error">>, <<"boom">>, Undef),
     Response(404, <<"Not Found">>, <<"no such route">>, Undef)}

WhoamiResponses ==
    {Response(200, <<"OK">>, <<>>,
              Obj(<<Entry(Prop("email"), Str(<<"a@b.c">>)),
                    Entry(Prop("id"), Str(<<"u1">>))>>)),
     Response(200, <<"OK">>, <<>>, Obj(<<>>)),
     Response(200, <<"OK">>, <<>>, Obj(<<Entry(Prop("email"), Str(<<"a@b.c">>))>>)),
     Response(200, <<"OK">>, <<>>,
              Obj(<<Entry(Prop("email"), Str(<<>>)),
                    Entry(Prop("id"), Str(<<"u1">>))>>)),
     Response(200, <<"OK">>, <<>>, Null),
     Response(200, <<"OK">>, <<>>, [t |-> "invalid", s |-> <<>>, kids |-> <<>>]),
     Response(400, <<"Bad Request">>, <<>>, Undef),
     Response(401, <<"Unauthorized">>, <<>>, Undef),
     Response(404, <<"Not Found">>, <<"Server error", " upstream">>, Undef),
     Response(500, <<"Internal Server Error">>, <<"boom">>, Undef),
     Response(503, <<>>, <<>>, Undef)}

\* the request a slot has in flight: POST {apiUrl}/i18n with one chunk, or
\* the single request of recognizeLocale or whoami
Request(slot, run) ==
    IF run.op = "recognizeLocale" \/ run.op = "whoami"
    THEN [slot |-> slot, url |-> IF run.op = "whoami" THEN "/whoami" ELSE "/recognize",
          chunk |-> 0, workflowId |-> <<>>, target |-> "", data |-> <<>>]
    ELSE [slot |-> slot, url |-> "/i18n", chunk |-> run.i,
          workflowId |-> run.workflowId, target |-> run.targetLocale,
          data |-> run.chunkedPayload[run.i]]

\* ------------------------------------------------------- enumerated calls
MainStrings == {S_one, S_two}

Names == {<<"Alice">>, <<"Bob">>}

Locales == {"", "es", "fr"}

SeqsUpTo(set, n) == UNION {[1..m -> set] : m \in 0..n}

\* documents as the html string and the tree DOMParser makes of it: the empty
\* string; a text; padded text before an image with alt text; a script and a
\* text that occurs in it, without an html tag; two elements around blank text
HtmlPage(html, doc) == [html |-> html, doc |-> doc]

\* the characters of tag names and attribute names
T_html == <<"h", "t", "m", "l">>
T_body == <<"b", "o", "d", "y">>
T_script == <<"s", "c", "r", "i", "p", "t">>
T_img == <<"i", "m", "g">>
T_p == <<"p">>
T_i == <<"i">>
A_lang == <<"l", "a", "n", "g">>
A_alt == <<"a", "l", "t">>

StartTag(name, attrs) == <<"<">> \o name \o attrs \o <<">">>

EndTag(name) == <<"<", "/">> \o name \o <<">">>

Attr(name, value) == <<" ">> \o name \o <<"=", "\"">> \o value \o <<"\"">>

HtmlDocuments ==
    {HtmlPage(<<>>, Document("", <<>>, <<>>)),
     HtmlPage(StartTag(T_html, Attr(A_lang, <<"en">>)) \o StartTag(T_body, <<>>)
              \o S_one \o EndTag(T_body) \o EndTag(T_html),
              Document("en", <<>>, <<TextNode(S_one)>>)),
     HtmlPage(StartTag(T_html, Attr(A_lang, <<"en">>)) \o StartTag(T_body, <<>>)
              \o S_padded \o StartTag(T_img, Attr(A_alt, S_two))
              \o EndTag(T_body) \o EndTag(T_html),
              Document("en", <<>>, <<TextNode(S_padded),
                                     Element("img", <<Entry("alt", S_two)>>, <<>>)>>)),
     HtmlPage(StartTag(T_body, <<>>)
              \o StartTag(T_script, <<>>) \o S_two \o EndTag(T_script)
              \o S_one \o EndTag(T_body),
              Document("", <<>>, <<Element("script", <<>>, <<TextNode(S_two)>>),
                                   TextNode(S_one)>>)),
     HtmlPage(StartTag(T_html, <<>>) \o StartTag(T_body, <<>>)
              \o StartTag(T_p, <<>>) \o S_one \o EndTag(T_p) \o <<" ">>
              \o StartTag(T_i, <<>>) \o S_one \o EndTag(T_i)
              \o EndTag(T_body) \o EndTag(T_html),
              Document("", <<>>, <<Element("p", <<>>, <<TextNode(S_one)>>),
                                   TextNode(<<" ">>),
                                   Element("i", <<>>, <<TextNode(S_one)>>)>>))}

NoCall ==
    [op |-> "", text |-> <<>>, obj |-> <<>>, strings |-> <<>>, chat |-> <<>>,
     html |-> <<>>, doc |-> Document("", <<>>, <<>>), domParser |-> TRUE,
     targetLocale |-> "", targetLocales |-> <<>>, signal |-> FALSE,
     callback |-> FALSE]

Calls ==
    {[NoCall EXCEPT !.op = "localizeText", !.text = t, !.targetLocale = l,
                    !.signal = sg, !.callback = cb] :
        t \in MainStrings \cup {S_empty}, l \in {"", "es"}, sg \in BOOLEAN, cb \in BOOLEAN}
    \cup
    {[NoCall EXCEPT !.op = "localizeObject", !.obj = o, !.targetLocale = l,
                    !.signal = sg, !.callback = cb] :
        o \in ObjectsUpTo(MaxItems, {Str(S_one), Str(S_two), Num}), l \in {"", "es"},
        sg \in BOOLEAN, cb \in BOOLEAN}
    \cup
    {[NoCall EXCEPT !.op = "localizeStringArray", !.strings = a, !.targetLocale = l,
                    !.signal = sg] :
        a \in SeqsUpTo(MainStrings, MaxItems), l \in {"", "es"}, sg \in BOOLEAN}
    \cup
    {[NoCall EXCEPT !.op = "localizeChat", !.chat = ch, !.targetLocale = l,
                    !.signal = sg, !.callback = cb] :
        ch \in SeqsUpTo([name : Names, text : MainStrings], MaxItems),
        l \in {"", "es"}, sg \in BOOLEAN, cb \in BOOLEAN}
    \cup
    {[NoCall EXCEPT !.op = "localizeHtml", !.html = d.html, !.doc = d.doc,
                    !.domParser = dp, !.targetLocale = l,
                    !.signal = sg, !.callback = cb] :
        d \in HtmlDocuments, dp \in BOOLEAN, l \in {"", "es"},
        sg \in BOOLEAN, cb \in BOOLEAN}
    \cup
    {[NoCall EXCEPT !.op = "batchLocalizeText", !.text = t, !.targetLocales = ls,
                    !.signal = sg] :
        t \in {S_one}, ls \in SeqsUpTo(Locales, MaxLocales), sg \in BOOLEAN}
    \cup
    {[NoCall EXCEPT !.op = "recognizeLocale", !.text = t, !.signal = sg] :
        t \in {S_one}, sg \in BOOLEAN}
    \cup
    {[NoCall EXCEPT !.op = "whoami", !.signal = sg] : sg \in BOOLEAN}

Min(set) == CHOOSE x \in set : \A y \in set : x <= y

\* ------------------------------------------------------------- Promise.all
\* the record Promise.all keeps over n input promises
gatherOver(n) == [values |-> [j \in 1..n |-> Undef], remaining |-> n]

NoGather == gatherOver(0)

\* a fulfilled input is stored in completion order instead of at its index
allResolvePushed(g, index, value) ==
    [g EXCEPT !.values[Len(g.values) - g.remaining + 1] = value,
              !.remaining = @ - 1]

\* the resolve element function of Promise.all for the input at index
allResolve(g, index, value) ==
    [g EXCEPT !.values[index] = value, !.remaining = @ - 1]

\* a rejected input no longer rejects the whole
allRejectIgnored(p, error) == p

\* the reject function handed to every input: settles a pending promise only
allReject(p, error) == IF p.state = "pending" THEN Rejected(error) ELSE p

\* the promise of Promise.all once all inputs are stored
allDone(p, g) ==
    IF p.state = "pending" /\ g.remaining = 0
    THEN Fulfilled(ArrayOf(g.values)) ELSE p

\* the rejected slot of rs whose rejection reaches Promise.all first: a
\* validation failure passes fewer awaits than a rejected fetch; among
\* equals the lower index
firstRejected(rs, among) ==
    LET early == {s \in among : rs[s].outcome.error = TargetLocaleRequired}
    IN  IF early # {} THEN Min(early) ELSE Min(among)

\* ----------------------------------------------------------------- actions
NotCalled == [state |-> "idle", value |-> Undef, error |-> NoError]

ChunkOps == SingleOps \cup {"batchLocalizeText"}

\* recognizeLocale or whoami up to its await of fetch
startDirect(op, c) ==
    settle(IF c.signal /\ aborted
           THEN [UnusedRun EXCEPT !.op = op, !.signal = c.signal, !.pc = "done",
                                  !.raw = Rejected(AbortError)]
           ELSE [UnusedRun EXCEPT !.op = op, !.signal = c.signal, !.pc = "fetch"],
           c)

\* the activation a public operation starts on a slot
startRun(op, c, targetLocale, hasCallback, hasSignal, workflowId) ==
    settle(localizeRawStart(config,
               [UnusedRun EXCEPT !.op = op, !.targetLocale = targetLocale,
                                 !.payload = payloadOf(op, c),
                                 !.hasCallback = hasCallback,
                                 !.signal = hasSignal],
               workflowId, aborted), c)

\* the requests the slots of from..MaxLocales put on the network, in slot order
RECURSIVE issued(_, _, _)
issued(before, after, from) ==
    IF from > MaxLocales THEN <<>>
    ELSE (IF after[from].pc = "fetch"
             /\ (before[from].pc # "fetch" \/ before[from].i # after[from].i)
          THEN <<Request(from, after[from])>> ELSE <<>>)
         \o issued(before, after, from + 1)

\* localizeText, localizeObject, localizeStringArray or localizeChat is called
InvokeSingle(op) ==
    /\ promise.state = "idle"
    /\ call.op = op
    /\ \E id \in WorkflowIds :
        LET run == startRun(op, call, call.targetLocale,
                            call.callback /\ AcceptsCallback(op),
                            call.signal /\ AcceptsSignal(op), id)
            after == [runs EXCEPT ![1] = run]
        IN  /\ runs' = after
            /\ promise' = run.outcome
            /\ requests' = requests \o issued(runs, after, 1)
    /\ UNCHANGED <<config, arg, ret, call, aborted, gathered,
                 constructed, hasWarnedDeprecation, console>>

LocalizeText == InvokeSingle("localizeText")

LocalizeObject == InvokeSingle("localizeObject")

LocalizeStringArray == InvokeSingle("localizeStringArray")

LocalizeChat == InvokeSingle("localizeChat")

LocalizeHtml == InvokeSingle("localizeHtml")

\* recognizeLocale or whoami is called
InvokeDirect(op) ==
    /\ promise.state = "idle"
    /\ call.op = op
    /\ LET run == startDirect(op, call)
           after == [runs EXCEPT ![1] = run]
       IN  /\ runs' = after
           /\ promise' = run.outcome
           /\ requests' = requests \o issued(runs, after, 1)
    /\ UNCHANGED <<config, arg, ret, call, aborted, gathered,
                 constructed, hasWarnedDeprecation, console>>

RecognizeLocale == InvokeDirect("recognizeLocale")

Whoami == InvokeDirect("whoami")

\* the target locale is kept in one place for all the calls of the batch, and
\* every call reads the locale of the last
BatchLocalizeTextSharedLocale ==
    /\ promise.state = "idle"
    /\ call.op = "batchLocalizeText"
    /\ \E ids \in [1..Len(call.targetLocales) -> WorkflowIds] :
        LET n == Len(call.targetLocales)
            after == [s \in Slots |->
                        IF s <= n
                        THEN startRun("localizeText", call, call.targetLocales[n],
                                      FALSE, call.signal, ids[s])
                        ELSE UnusedRun]
            rejected == {s \in 1..n : after[s].outcome.state = "rejected"}
        IN  /\ runs' = after
            /\ gathered' = gatherOver(n)
            /\ promise' =
                 IF rejected # {}
                 THEN allReject(Pending,
                                after[firstRejected(after, rejected)].outcome.error)
                 ELSE allDone(Pending, gatherOver(n))
            /\ requests' = requests \o issued(runs, after, 1)
    /\ UNCHANGED <<config, arg, ret, call, aborted,
                 constructed, hasWarnedDeprecation, console>>

\* batchLocalizeText is called: one localizeText per target locale, each run
\* up to its first await before the next starts, then Promise.all over them
BatchLocalizeText ==
    /\ promise.state = "idle"
    /\ call.op = "batchLocalizeText"
    /\ \E ids \in [1..Len(call.targetLocales) -> WorkflowIds] :
        LET n == Len(call.targetLocales)
            after == [s \in Slots |->
                        IF s <= n
                        THEN startRun("localizeText", call, call.targetLocales[s],
                                      FALSE, call.signal, ids[s])
                        ELSE UnusedRun]
            rejected == {s \in 1..n : after[s].outcome.state = "rejected"}
        IN  /\ runs' = after
            /\ gathered' = gatherOver(n)
            /\ promise' =
                 IF rejected # {}
                 THEN allReject(Pending,
                                after[firstRejected(after, rejected)].outcome.error)
                 ELSE allDone(Pending, gatherOver(n))
            /\ requests' = requests \o issued(runs, after, 1)
    /\ UNCHANGED <<config, arg, ret, call, aborted,
                 constructed, hasWarnedDeprecation, console>>

\* how the settling of slot s, leaving the slots as in after, settles the
\* caller's promise
callerPromise(s, after) ==
    IF call.op # "batchLocalizeText" THEN after[s].outcome
    ELSE IF after[s].outcome.state = "rejected"
         THEN allReject(promise, after[s].outcome.error)
    ELSE IF after[s].outcome.state = "fulfilled"
         THEN allDone(promise, allResolve(gathered, s, after[s].outcome.value))
         ELSE promise

callerGathered(s, after) ==
    IF call.op = "batchLocalizeText" /\ after[s].outcome.state = "fulfilled"
    THEN allResolve(gathered, s, after[s].outcome.value)
    ELSE gathered

\* the response for slot s arrives, and when the call on s fails with it the
\* requests the other slots have in flight are aborted
ReceiveResponseCancelling(s) ==
    /\ runs[s].pc = "fetch"
    /\ runs[s].op \in ChunkOps
    /\ \E res \in Responses(runs[s]) :
        LET run == settle(localizeRawResume(runs[s], res, aborted), call)
            after == [t \in Slots |->
                        IF t = s THEN run
                        ELSE IF run.raw.state = "rejected" /\ runs[t].pc = "fetch"
                        THEN settle([runs[t] EXCEPT !.pc = "done",
                                                    !.raw = Rejected(AbortError)], call)
                        ELSE runs[t]]
        IN  /\ runs' = after
            /\ promise' = callerPromise(s, after)
            /\ gathered' = callerGathered(s, after)
            /\ requests' = requests \o issued(runs, after, 1)
    /\ UNCHANGED <<config, arg, ret, call, aborted,
                 constructed, hasWarnedDeprecation, console>>

\* the response for the chunk request in flight on slot s arrives;
\* _localizeRaw runs on to its next await; the progress callback, which is
\* the caller's code, may abort the signal
ReceiveResponse(s) ==
    /\ runs[s].pc = "fetch"
    /\ runs[s].op \in ChunkOps
    /\ \E res \in Responses(runs[s]) :
       \E abortInCallback \in
              IF runs[s].hasCallback /\ call.signal /\ ~aborted /\ localizeChunk(res).ok
              THEN BOOLEAN ELSE {FALSE} :
        LET run == settle(localizeRawResume(runs[s], res, aborted \/ abortInCallback),
                          call)
            after == [runs EXCEPT ![s] = run]
        IN  /\ aborted' = (aborted \/ abortInCallback)
            /\ runs' = after
            /\ promise' = callerPromise(s, after)
            /\ gathered' = callerGathered(s, after)
            /\ requests' = requests \o issued(runs, after, 1)
    /\ UNCHANGED <<config, arg, ret, call,
                 constructed, hasWarnedDeprecation, console>>

\* the response for the request of recognizeLocale arrives
ReceiveRecognizeResponse ==
    /\ runs[1].pc = "fetch"
    /\ runs[1].op = "recognizeLocale"
    /\ \E response \in RecognizeResponses :
        LET run == settle([runs[1] EXCEPT !.pc = "done", !.res = response,
                               !.raw = toPromise(recognizeLocale(response))], call)
        IN  /\ runs' = [runs EXCEPT ![1] = run]
            /\ promise' = run.outcome
    /\ UNCHANGED <<config, arg, ret, call, aborted, gathered, requests,
                 constructed, hasWarnedDeprecation, console>>

\* the response for the request of whoami arrives
ReceiveWhoamiResponse ==
    /\ runs[1].pc = "fetch"
    /\ runs[1].op = "whoami"
    /\ \E res \in WhoamiResponses :
        LET run == settle([runs[1] EXCEPT !.pc = "done", !.res = res,
                               !.raw = toPromise(whoamiTry(res))], call)
        IN  /\ runs' = [runs EXCEPT ![1] = run]
            /\ promise' = run.outcome
    /\ UNCHANGED <<config, arg, ret, call, aborted, gathered, requests,
                 constructed, hasWarnedDeprecation, console>>

\* the caller aborts its signal while requests are in flight: every fetch
\* that was given the signal rejects with AbortError
Abort ==
    /\ call.signal
    /\ ~aborted
    /\ \E s \in Slots : runs[s].pc = "fetch"
    /\ aborted' = TRUE
    /\ LET hit == {s \in Slots : runs[s].pc = "fetch" /\ runs[s].signal}
           after == [s \in Slots |->
                       IF s \in hit
                       THEN settle([runs[s] EXCEPT !.pc = "done",
                                                   !.raw = Rejected(AbortError)], call)
                       ELSE runs[s]]
       IN  /\ runs' = after
           /\ promise' = IF hit = {} THEN promise
                         ELSE IF call.op = "batchLocalizeText"
                              THEN allReject(promise, AbortError)
                              ELSE after[1].outcome
    /\ UNCHANGED <<config, arg, ret, call, gathered, requests,
                 constructed, hasWarnedDeprecation, console>>

\* ------------------------------------------ specification of the operations
Init ==
    /\ config \in {validateEngineParams(p).value : p \in PartialConfigs}
    /\ call \in Calls
    /\ aborted \in (IF call.signal THEN BOOLEAN ELSE {FALSE})
    /\ runs = [s \in Slots |-> UnusedRun]
    /\ promise = NotCalled
    /\ gathered = NoGather
    /\ requests = <<>>
    /\ arg = Undef
    /\ ret = Undef
    /\ constructed = [NoneConstructed EXCEPT !["LingoDotDevEngine"] = 1]
    /\ hasWarnedDeprecation = NoneWarned
    /\ console = <<>>

Next ==
    \/ LocalizeText
    \/ LocalizeObject
    \/ LocalizeStringArray
    \/ LocalizeChat
    \/ LocalizeHtml
    \/ BatchLocalizeText
    \/ RecognizeLocale
    \/ Whoami
    \/ \E s \in Slots : ReceiveResponse(s)
    \/ ReceiveRecognizeResponse
    \/ ReceiveWhoamiResponse
    \/ Abort

Spec == Init /\ [][Next]_vars

\* ------------------- specification of one call, requests always completed
\* localizeStringArray over up to MaxItems strings; every request in flight
\* is completed eventually, with a response of the remote (an error
\* response included) or by the abort that ends it
InitFair ==
    /\ Init
    /\ call.op = "localizeStringArray"

NextFair ==
    \/ LocalizeStringArray
    \/ \E s \in Slots : ReceiveResponse(s)
    \/ Abort

SpecFair ==
    /\ InitFair
    /\ [][NextFair]_vars
    /\ \A s \in Slots : WF_vars(ReceiveResponse(s))

\* ---------------------------- specification of localizeHtml, echoing remote
\* the response that returns every value of the chunk in flight unchanged
identityResponse(run) ==
    Response(200, <<"OK">>, <<>>, JsonBody(Obj(run.chunkedPayload[run.i]), Undef))

\* the remote answers the chunk request of localizeHtml with the values it
\* was sent; _localizeRaw runs on to its next await
ReceiveIdentityResponse ==
    /\ runs[1].pc = "fetch"
    /\ runs[1].op = "localizeHtml"
    /\ LET run == settle(localizeRawResume(runs[1], identityResponse(runs[1]),
                                           aborted), call)
           after == [runs EXCEPT ![1] = run]
       IN  /\ runs' = after
           /\ promise' = callerPromise(1, after)
           /\ requests' = requests \o issued(runs, after, 1)
    /\ UNCHANGED <<config, arg, ret, call, aborted, gathered,
                 constructed, hasWarnedDeprecation, console>>

InitHtml ==
    /\ Init
    /\ call.op = "localizeHtml"

NextHtml ==
    \/ LocalizeHtml
    \/ ReceiveIdentityResponse

SpecHtml == InitHtml /\ [][NextHtml]_vars

\* ------------- specification of localizeHtml, remote with blank translations
\* the values the remote may return for a key: a translation, the empty
\* string, a string of whitespace
Translations(k, locale) == {Tr(k, locale), Str(<<>>), Str(<<" ">>)}

\* the `data` mappings that carry exactly the keys of the chunk in flight, in
\* the order sent
translatedMappings(run) ==
    LET chunk == run.chunkedPayload[run.i]
        values == UNION {Translations(chunk[j].k, run.targetLocale) : j \in DOMAIN chunk}
    IN  {m \in [DOMAIN chunk -> [k : Keys(chunk), v : values]] :
            \A j \in DOMAIN chunk :
                /\ m[j].k = chunk[j].k
                /\ m[j].v \in Translations(chunk[j].k, run.targetLocale)}

\* the remote answers the chunk request of localizeHtml; _localizeRaw runs on
\* to its next await
ReceiveTranslations ==
    /\ runs[1].pc = "fetch"
    /\ runs[1].op = "localizeHtml"
    /\ \E m \in translatedMappings(runs[1]) :
        LET res == Response(200, <<"OK">>, <<>>, JsonBody(Obj(m), Undef))
            run == settle(localizeRawResume(runs[1], res, aborted), call)
            after == [runs EXCEPT ![1] = run]
        IN  /\ runs' = after
            /\ promise' = callerPromise(1, after)
            /\ requests' = requests \o issued(runs, after, 1)
    /\ UNCHANGED <<config, arg, ret, call, aborted, gathered,
                 constructed, hasWarnedDeprecation, console>>

NextTranslations ==
    \/ LocalizeHtml
    \/ ReceiveTranslations

SpecTranslations == InitHtml /\ [][NextTranslations]_vars

\* ------------------------------------- specification of the constructors
MaxEngines == 3     \* engines constructed in one process

\* the Partial<EngineParams> handed to a constructor: apiKey unset, empty or
\* given; apiUrl unset or given; the sizes unset, 0 or given
EngineInputs ==
    [apiKey : {Undef, Str(<<>>), Str(<<"key">>)},
     apiUrl : {Undef, Str(<<"http://localhost">>)},
     batchSize : {Undefined, 0, 2},
     idealBatchItemSize : {Undefined, 0, 3}]

\* this.config before any engine exists
NoConfig ==
    [apiKey |-> Undef, apiUrl |-> Undef,
     batchSize |-> Undefined, idealBatchItemSize |-> Undefined]

DeprecationWarning(class) ==
    <<class, " is deprecated and will be removed in a future release. ",
      "Please use LingoDotDevEngine instead. ",
      "See https://lingo.dev/cli for more information.">>

\* the warning is printed by every construction
warnAlways(class, flags, log) ==
    [flags |-> [flags EXCEPT ![class] = TRUE],
     log |-> Append(log, DeprecationWarning(class))]

\* if (!Class.hasWarnedDeprecation) { console.warn(...); flag = true }
warnOnce(class, flags, log) ==
    IF ~flags[class]
    THEN [flags |-> [flags EXCEPT ![class] = TRUE],
          log |-> Append(log, DeprecationWarning(class))]
    ELSE [flags |-> flags, log |-> log]

Sum3(f) == f["LingoDotDevEngine"] + f["ReplexicaEngine"] + f["LingoEngine"]

\* new LingoDotDevEngine(partial): this.config = validateEngineParams(config)
NewLingoDotDevEngine ==
    /\ Sum3(constructed) < MaxEngines
    /\ \E partial \in EngineInputs :
        LET r == validateEngineParams(partial)
        IN  /\ arg' = partial
            /\ ret' = r
            /\ config' = IF r.ok THEN r.value ELSE config
            /\ constructed' = IF r.ok
                              THEN [constructed EXCEPT !["LingoDotDevEngine"] = @ + 1]
                              ELSE constructed
    /\ UNCHANGED <<call, aborted, runs, promise, gathered, requests,
                   hasWarnedDeprecation, console>>

\* new ReplexicaEngine(partial) or new LingoEngine(partial): super(config)
\* runs first and may throw; then the warning, guarded by the static flag
NewDeprecated(class) ==
    /\ Sum3(constructed) < MaxEngines
    /\ \E partial \in EngineInputs :
        LET r == validateEngineParams(partial)
            w == IF r.ok THEN warnOnce(class, hasWarnedDeprecation, console)
                 ELSE [flags |-> hasWarnedDeprecation, log |-> console]
        IN  /\ arg' = partial
            /\ ret' = r
            /\ config' = IF r.ok THEN r.value ELSE config
            /\ constructed' = IF r.ok THEN [constructed EXCEPT ![class] = @ + 1]
                              ELSE constructed
            /\ hasWarnedDeprecation' = w.flags
            /\ console' = w.log
    /\ UNCHANGED <<call, aborted, runs, promise, gathered, requests>>

NewReplexicaEngine == NewDeprecated("ReplexicaEngine")

NewLingoEngine == NewDeprecated("LingoEngine")

InitConstruct ==
    /\ config = NoConfig
    /\ arg = Undef
    /\ ret = Undef
    /\ call = NoCall
    /\ aborted = FALSE
    /\ runs = <<>>
    /\ promise = NotCalled
    /\ gathered = NoGather
    /\ requests = <<>>
    /\ constructed = NoneConstructed
    /\ hasWarnedDeprecation = NoneWarned
    /\ console = <<>>

NextConstruct ==
    \/ NewLingoDotDevEngine
    \/ NewReplexicaEngine
    \/ NewLingoEngine

SpecConstruct == InitConstruct /\ [][NextConstruct]_vars

\* ------------------------------------- specification of the Word-Counter
MaxDepth == 2       \* deepest nesting of the values that are counted

S_tabbed == <<"\t", "a", " ", "\n", "b", " ">>

CounterLeaves == {Str(S_empty), Str(S_one), Str(S_tabbed), Num, Null}

\* the values countWordsInRecord is given: a leaf; an empty array or object;
\* an array or object that holds a nested value, alone or beside a leaf
RECURSIVE NestedValues(_)
NestedValues(depth) ==
    IF depth = 0 THEN CounterLeaves
    ELSE LET inner == NestedValues(depth - 1)
         IN  CounterLeaves \cup {ArrayOf(<<>>), Obj(<<>>)}
             \cup {ArrayOf(<<n>>) : n \in inner}
             \cup {ArrayOf(<<l, n>>) : l \in CounterLeaves, n \in inner}
             \cup {Obj(<<Entry(ObjectKey(1), n)>>) : n \in inner}
             \cup {Obj(<<Entry(ObjectKey(1), n), Entry(ObjectKey(2), l)>>) :
                      n \in inner, l \in CounterLeaves}

InitCounter ==
    /\ config \in {validateEngineParams(p).value : p \in PartialConfigs}
    /\ arg \in NestedValues(MaxDepth)
    /\ ret = Undef
    /\ call = NoCall
    /\ aborted = FALSE
    /\ runs = <<>>
    /\ promise = NotCalled
    /\ gathered = NoGather
    /\ requests = <<>>
    /\ constructed = [NoneConstructed EXCEPT !["LingoDotDevEngine"] = 1]
    /\ hasWarnedDeprecation = NoneWarned
    /\ console = <<>>

\* this.countWordsInRecord(payload) returns
RunCounter ==
    /\ ret = Undef
    /\ ret' = Returned(countWordsInRecord(arg))
    /\ UNCHANGED <<config, arg, call, aborted, runs, promise, gathered, requests,
                 constructed, hasWarnedDeprecation, console>>

NextCounter == RunCounter

SpecCounter == InitCounter /\ [][NextCounter]_vars

\* ------------------------------- specification of the progress percentage
MaxChunks == 40     \* most chunks of a call whose progress is computed

\* the loop of _localizeRaw reaches chunk done of length chunks
InitProgress ==
    /\ config \in {validateEngineParams(p).value : p \in PartialConfigs}
    /\ arg \in {[done |-> d, length |-> n] : d \in 1..MaxChunks, n \in 1..MaxChunks}
    /\ arg.done <= arg.length
    /\ ret = Undef
    /\ call = NoCall
    /\ aborted = FALSE
    /\ runs = <<>>
    /\ promise = NotCalled
    /\ gathered = NoGather
    /\ requests = <<>>
    /\ constructed = [NoneConstructed EXCEPT !["LingoDotDevEngine"] = 1]
    /\ hasWarnedDeprecation = NoneWarned
    /\ console = <<>>

\* const percentageCompleted = Math.round(((i + 1) / length) * 100)
RunProgress ==
    /\ ret = Undef
    /\ ret' = Returned(percentageCompleted(arg.done, arg.length))
    /\ UNCHANGED <<config, arg, call, aborted, runs, promise, gathered, requests,
                 constructed, hasWarnedDeprecation, console>>

NextProgress == RunProgress

SpecProgress == InitProgress /\ [][NextProgress]_vars

\* ------------------------------------------- specification of the Chunker
InitChunker ==
    /\ config \in {validateEngineParams(p).value : p \in PartialConfigs}
    /\ arg \in ObjectsUpTo(MaxEntries, PayloadValues)
    /\ ret = Undef
    /\ call = NoCall
    /\ aborted = FALSE
    /\ runs = <<>>
    /\ promise = NotCalled
    /\ gathered = NoGather
    /\ requests = <<>>
    /\ constructed = [NoneConstructed EXCEPT !["LingoDotDevEngine"] = 1]
    /\ hasWarnedDeprecation = NoneWarned
    /\ console = <<>>

RunChunker ==
    /\ ret = Undef
    /\ ret' = ArrayOf([j \in DOMAIN extractPayloadChunks(config, arg) |->
                         Obj(extractPayloadChunks(config, arg)[j])])
    /\ UNCHANGED <<config, arg, call, aborted, runs, promise, gathered, requests,
                 constructed, hasWarnedDeprecation, console>>

NextChunker == RunChunker

SpecChunker == InitChunker /\ [][NextChunker]_vars

\* ------------------------------- specification of the Chunk Translator Client
InvalidJson == [t |-> "invalid", s |-> <<>>, kids |-> <<>>]

\* responses fetch can resolve with: 2xx with a JSON object holding or not
\* holding data and error, with the JSON null, or with a body that is not
\* JSON; other statuses with a status text and a body text
ClientResponses ==
    {Response(st, <<"OK">>, <<>>, body) :
        st \in {200, 201, 299},
        body \in {JsonBody(d, e) :
                     d \in {Undef, Null, Obj(<<>>),
                            Obj(<<Entry(Prop("text"), Str(S_one))>>)},
                     e \in {Undef, Null, Str(<<>>), Str(<<"quota exceeded">>)}}
                 \cup {Null, InvalidJson}}
    \cup
    {Response(st, statusText, text, Undef) :
        st \in {302, 400, 401, 404, 499, 500, 503, 599},
        statusText \in {<<>>, <<"Status Text">>},
        text \in {<<>>, <<"boom">>, <<"Server error", " upstream">>}}

InitClient ==
    /\ config \in {validateEngineParams(p).value : p \in PartialConfigs}
    /\ arg \in ClientResponses
    /\ ret = Undef
    /\ call = NoCall
    /\ aborted = FALSE
    /\ runs = <<>>
    /\ promise = NotCalled
    /\ gathered = NoGather
    /\ requests = <<>>
    /\ constructed = [NoneConstructed EXCEPT !["LingoDotDevEngine"] = 1]
    /\ hasWarnedDeprecation = NoneWarned
    /\ console = <<>>

RunLocalizeChunk ==
    /\ ret = Undef
    /\ ret' = localizeChunk(arg)
    /\ UNCHANGED <<config, arg, call, aborted, runs, promise, gathered, requests,
                 constructed, hasWarnedDeprecation, console>>

NextClient == RunLocalizeChunk

SpecClient == InitClient /\ [][NextClient]_vars

\* ================================================================== claims
\* the chunks returned by the Chunker, as mappings
returnedChunks == [j \in DOMAIN ret.kids |-> ret.kids[j].v.kids]

RECURSIVE Flatten(_)
Flatten(seqs) == IF seqs = <<>> THEN <<>> ELSE Head(seqs) \o Flatten(Tail(seqs))

IsStringEntry(e) == e.v.t = "string"

\* C1: the chunks of extractPayloadChunks, concatenated in order, are exactly
\* the string-valued entries of the payload, each once, with its value and in
\* the payload's order, and hold no non-string entry.
C1_ChunkerPartition ==
    ret.t = "array" => Flatten(returnedChunks) = SelectSeq(arg, IsStringEntry)

\* C2: every chunk of extractPayloadChunks is non-empty and holds at most
\* batchSize entries.
C2_ChunkSizeBound ==
    ret.t = "array" =>
        \A j \in DOMAIN returnedChunks :
            /\ Len(returnedChunks[j]) >= 1
            /\ Len(returnedChunks[j]) <= config.batchSize

\* a payload was split because a chunk reached the configured batchSize of 2
C2_Witness ==
    /\ ret.t = "array"
    /\ config.batchSize = 2
    /\ Len(returnedChunks) >= 2
    /\ Len(returnedChunks[1]) = 2

\* the call fulfilled for the caller is one of operation op
fulfilledBy(op) == call.op = op /\ promise.state = "fulfilled"

\* every response so far mapped exactly the keys of the chunk it answered
exactResponses(run) ==
    \A j \in DOMAIN run.processedPayloadChunks :
        /\ Len(run.processedPayloadChunks[j]) = Len(run.chunkedPayload[j])
        /\ Keys(run.processedPayloadChunks[j]) = Keys(run.chunkedPayload[j])

\* the translation the remote returned for key, in its response to the chunk
\* that carried key
translationFor(run, key) ==
    LET j == CHOOSE x \in DOMAIN run.chunkedPayload :
                 HasKey(run.chunkedPayload[x], key)
    IN  Get(run.processedPayloadChunks[j], key)

\* C3: when every response maps the sent keys item_i to translations,
\* localizeStringArray returns an array as long as its input whose element
\* at index i is the translation of the input string at index i.
C3_StringArrayOrder ==
    (fulfilledBy("localizeStringArray") /\ exactResponses(runs[1])) =>
        LET out == promise.value.kids
        IN  /\ Len(out) = Len(call.strings)
            /\ \A i \in 1..Len(call.strings) :
                   out[i].v = translationFor(runs[1], Key("item", i - 1))

\* C4: a successful localizeChat returns as many messages as it was given,
\* message i carrying the name of input message i and the translation
\* returned for chat_i.
C4_ChatNamePreserved ==
    (fulfilledBy("localizeChat") /\ exactResponses(runs[1])) =>
        LET out == promise.value.kids
        IN  /\ Len(out) = Len(call.chat)
            /\ \A i \in 1..Len(call.chat) :
                   out[i].v = ChatMessage(Str(call.chat[i].name),
                                  translationFor(runs[1], Key("chat", i - 1)))

\* C5: a successful localizeObject returns a mapping with the key set of the
\* input, a string-valued entry carrying the translation returned for its
\* key and every other entry the input's value.
C5_ObjectStructure ==
    (fulfilledBy("localizeObject") /\ exactResponses(runs[1])) =>
        LET out == promise.value.kids
        IN  /\ Keys(out) = Keys(call.obj)
            /\ \A x \in DOMAIN call.obj :
                   Get(out, call.obj[x].k) =
                       IF IsStringEntry(call.obj[x])
                       THEN translationFor(runs[1], call.obj[x].k)
                       ELSE call.obj[x].v

\* the string localizeText makes of the response received on slot s
translationObtained(s) ==
    LET data == Field(runs[s].res.body, "data")
    IN  IF Truthy(data) /\ Truthy(Field(data, "text"))
        THEN Field(data, "text") ELSE Str(<<>>)

\* C6: whatever the order in which the per-locale requests complete, a
\* successful batchLocalizeText returns one string per target locale, the
\* string at index i being the translation obtained for targetLocales[i].
C6_BatchOrder ==
    fulfilledBy("batchLocalizeText") =>
        LET out == promise.value.kids
        IN  /\ Len(out) = Len(call.targetLocales)
            /\ \A i \in 1..Len(call.targetLocales) :
                /\ \E x \in DOMAIN requests :
                       /\ requests[x].slot = i
                       /\ requests[x].target = call.targetLocales[i]
                /\ out[i].v = translationObtained(i)

\* a batch over two different locales has returned two different translations
C6_Witness ==
    /\ fulfilledBy("batchLocalizeText")
    /\ Len(call.targetLocales) = 2
    /\ call.targetLocales[1] # call.targetLocales[2]
    /\ promise.value.kids[1].v = Tr(Prop("text"), call.targetLocales[1])
    /\ promise.value.kids[2].v = Tr(Prop("text"), call.targetLocales[2])

rejectedSlots ==
    {s \in 1..Len(call.targetLocales) : runs[s].outcome.state = "rejected"}

\* C7: once the localization for any target locale has failed,
\* batchLocalizeText has failed with the failure of a failed locale and
\* carries no translations, whatever the other locales' calls did.
C7_BatchAllOrNothing ==
    (call.op = "batchLocalizeText" /\ promise.state # "idle"
        /\ rejectedSlots # {}) =>
        /\ promise.state = "rejected"
        /\ promise.value = Undef
        /\ \E s \in rejectedSlots : promise.error = runs[s].outcome.error

\* one locale's call has failed on its response and another has succeeded
C7_Witness ==
    /\ call.op = "batchLocalizeText"
    /\ Len(call.targetLocales) = 2
    /\ runs[1].outcome.state = "rejected"
    /\ runs[1].res.status = 500
    /\ runs[2].outcome.state = "fulfilled"
    /\ promise.state = "rejected"

\* the caller gave its signal to an operation that C8 names, with every
\* target locale valid
cancellableCall ==
    /\ call.signal
    /\ call.op \in {"localizeText", "localizeObject", "localizeChat",
                    "localizeHtml", "batchLocalizeText"}
    /\ IF call.op = "batchLocalizeText"
       THEN \A j \in DOMAIN call.targetLocales : call.targetLocales[j] # ""
       ELSE call.targetLocale # ""

failedWithAbortError(p) == p.state = "rejected" /\ p.error = AbortError

\* a step in which no slot takes a response
noResponseTaken ==
    \A s \in Slots :
        /\ runs'[s].res = runs[s].res
        /\ runs'[s].processedPayloadChunks = runs[s].processedPayloadChunks

noChunkCompletes ==
    \A s \in Slots :
        runs'[s].processedPayloadChunks = runs[s].processedPayloadChunks

\* C8 as stated: with any payload, a call made with an already aborted
\* signal fails with AbortError, a call whose signal is aborted while a chunk
\* request is in flight fails with AbortError, and after the abort no chunk
\* translation completes.
C8_CancelAnyPayload ==
    [][cancellableCall =>
        /\ (promise.state = "idle" /\ promise'.state # "idle" /\ aborted)
              => failedWithAbortError(promise')
        /\ (promise.state = "pending" /\ ~aborted /\ aborted' /\ noResponseTaken)
              => failedWithAbortError(promise')
        /\ aborted => noChunkCompletes]_vars

\* slot s of a step ends with chunks still to translate and its signal
\* aborted, not having failed before the step nor on a response taken in it
cancelledWithWorkLeft(s) ==
    /\ runs'[s].signal
    /\ aborted'
    /\ runs[s].pc # "done"
    /\ runs'[s].pc # "unused"
    /\ runs'[s].targetLocale # ""
    /\ Len(runs'[s].processedPayloadChunks) < Len(runs'[s].chunkedPayload)
    /\ (runs'[s].res = runs[s].res \/ localizeChunk(runs'[s].res).ok)

\* C8 (amended): a call that has a chunk request to issue while its signal is
\* aborted, or in flight when the signal is aborted, fails with AbortError
\* (a batch unless it has already failed), no request of it is in flight
\* under an aborted signal, and no chunk translation completes after the
\* abort; a call with no chunk request to issue completes whatever the signal.
C8_CancelIssuedRequests ==
    [][\A s \in Slots :
        /\ (runs'[s].signal /\ aborted') => runs'[s].pc # "fetch"
        /\ (runs'[s].signal /\ aborted) =>
              /\ runs'[s].processedPayloadChunks = runs[s].processedPayloadChunks
              /\ runs'[s].res = runs[s].res
        /\ cancelledWithWorkLeft(s) =>
              /\ runs'[s].raw = Rejected(AbortError)
              /\ failedWithAbortError(runs'[s].outcome)
              /\ promise'.state = "rejected"
              /\ (promise.state \in {"idle", "pending"} /\ cancellableCall)
                    => failedWithAbortError(promise')]_vars

\* the signal was aborted while the request for a second chunk was in
\* flight, and the call has failed with AbortError
C8_Witness ==
    /\ cancellableCall
    /\ aborted
    /\ runs[1].signal
    /\ runs[1].i = 2
    /\ Len(runs[1].processedPayloadChunks) = 1
    /\ failedWithAbortError(promise)

\* a call made with an already aborted signal has completed without a request
C8_NoRequestWitness ==
    /\ cancellableCall
    /\ aborted
    /\ requests = <<>>
    /\ promise.state = "fulfilled"

\* C9: every operation that issues a request takes the caller's signal, and
\* aborting the signal while the operation's request is in flight makes the
\* call fail with AbortError, which no other outcome is taken for.
C9_CancelEveryOperation ==
    [][(/\ call.signal
        /\ promise.state = "pending"
        /\ \E s \in Slots : runs[s].pc = "fetch"
        /\ ~aborted /\ aborted'
        /\ noResponseTaken) => failedWithAbortError(promise')]_vars

\* part occurs in message as a run of consecutive characters
carries(message, part) ==
    \E j \in 1..(Len(message) + 1) :
        /\ j + Len(part) - 1 <= Len(message)
        /\ SubSeq(message, j, j + Len(part) - 1) = part

\* the outcome C10 gives to every failure status
failureAsStated(res, outcome) ==
    /\ ~outcome.ok
    /\ IF res.status >= 500 /\ res.status < 600
       THEN /\ outcome.error.message[1] = "Server error"
            /\ carries(outcome.error.message, <<ToString(res.status)>>)
            /\ carries(outcome.error.message, res.statusText)
            /\ carries(outcome.error.message, res.text)
       ELSE IF res.status = 400
            THEN /\ outcome.error.message[1] = "Invalid request"
                 /\ carries(outcome.error.message, res.statusText)
            ELSE outcome.error.message = res.text

clientApplied == ret # Undef /\ arg.status # 0

\* C10 as stated: a 2xx response with a data field returns that field, one
\* without data but with an error field fails with that message, one with
\* neither returns the empty mapping; 5xx, 400 and the other failure statuses
\* fail with ServerError, InvalidRequest and the raw body text.
C10_ResponseClassification ==
    clientApplied =>
        IF ~ResOk(arg) THEN failureAsStated(arg, ret)
        ELSE arg.body.t = "object" =>
             IF HasKey(arg.body.kids, Prop("data"))
             THEN /\ ret.ok
                  /\ Field(arg.body, "data").t = "object"
                  /\ ret.value = Field(arg.body, "data").kids
             ELSE IF HasKey(arg.body.kids, Prop("error"))
                  THEN /\ ~ret.ok
                       /\ ret.error.message = Field(arg.body, "error").s
                  ELSE ret = Returned(<<>>)

\* C10 (amended): a 2xx response whose JSON object body has a truthy data
\* returns it; one whose data is absent or falsy and whose error is truthy
\* fails with that message; one with neither truthy returns the empty
\* mapping; the failure statuses are classified as stated.
C10_TruthyClassification ==
    clientApplied =>
        IF ~ResOk(arg) THEN failureAsStated(arg, ret)
        ELSE arg.body.t = "object" =>
             IF Truthy(Field(arg.body, "data"))
             THEN ret = Returned(Field(arg.body, "data").kids)
             ELSE IF Truthy(Field(arg.body, "error"))
                  THEN /\ ~ret.ok
                       /\ ret.error.message = Field(arg.body, "error").s
                  ELSE ret = Returned(<<>>)

\* a 2xx body with a null data field and an error message has been rejected
C10_Witness ==
    /\ clientApplied
    /\ ResOk(arg)
    /\ arg.body.t = "object"
    /\ Field(arg.body, "data") = Null
    /\ Field(arg.body, "error") = Str(<<"quota exceeded">>)
    /\ ~ret.ok
    /\ ret.error.message = <<"quota exceeded">>

\* the kind a caller derives from a failure as the README shows
derivedKind(error) ==
    IF Includes(error.message, "Server error") THEN "ServerError"
    ELSE IF Includes(error.message, "Invalid request") THEN "InvalidRequest"
    ELSE IF error.name = "AbortError" THEN "Cancelled"
    ELSE "other"

\* the kind of the cause: the status the remote answered with
causeKind(res) ==
    IF res.status >= 500 /\ res.status < 600 THEN "ServerError"
    ELSE IF res.status = 400 THEN "InvalidRequest"
    ELSE "other"

\* C11: for every response status and body, the kind derived from the
\* failure's message and name is the kind of its cause; a 400 is taken for
\* InvalidRequest and no response outside 5xx for ServerError.
C11_ErrorKinds ==
    (clientApplied /\ ~ret.ok) => derivedKind(ret.error) = causeKind(arg)

\* whoami has taken the response of its request
whoamiAnswered == call.op = "whoami" /\ runs[1].res # NoResponse

\* C12: whoami returns {email, id} when the endpoint answers 2xx with a
\* payload that has an email, null when the 2xx payload has none or the
\* endpoint answers a failure status outside 5xx, and fails with ServerError,
\* never null, when the endpoint answers 5xx.
C12_WhoamiOutcome ==
    whoamiAnswered =>
        LET res == runs[1].res
        IN  IF ResOk(res)
            THEN IF res.body.t = "object" /\ Truthy(Field(res.body, "email"))
                 THEN promise =
                        Fulfilled(Obj(<<Entry(Prop("email"), Field(res.body, "email")),
                                        Entry(Prop("id"), Field(res.body, "id"))>>))
                 ELSE promise = Fulfilled(Null)
            ELSE IF res.status >= 500 /\ res.status < 600
                 THEN /\ promise.state = "rejected"
                      /\ promise.value = Undef
                      /\ derivedKind(promise.error) = "ServerError"
                      /\ carries(promise.error.message, <<ToString(res.status)>>)
                 ELSE promise = Fulfilled(Null)

\* the endpoint answered 5xx and whoami has failed
C12_Witness ==
    /\ whoamiAnswered
    /\ runs[1].res.status = 503
    /\ promise.state = "rejected"

\* a target locale of the call is missing or empty
targetLocaleMissing ==
    IF call.op = "batchLocalizeText"
    THEN \E j \in DOMAIN call.targetLocales : call.targetLocales[j] = ""
    ELSE call.targetLocale = ""

\* C13: a localization operation called with a missing or empty target
\* locale fails with 'targetLocale is required' and has issued no request.
C13_ValidationBeforeNetwork ==
    (call.op \in ChunkOps /\ promise.state # "idle" /\ targetLocaleMissing) =>
        /\ promise = Rejected(TargetLocaleRequired)
        /\ requests = <<>>

\* the flat payload of the call has no string-valued entry
noStringEntry ==
    LET payload == payloadOf(call.op, call)
    IN  \A x \in DOMAIN payload : payload[x].v.t # "string"

\* what each operation returns when nothing was translated
emptyResult ==
    CASE call.op = "localizeObject" -> Obj(<<>>)
      [] call.op = "localizeStringArray" -> ArrayOf(<<>>)
      [] call.op = "localizeChat" -> ArrayOf(<<>>)
      [] call.op = "localizeHtml" ->
            IF call.domParser THEN [call.doc EXCEPT !.lang = call.targetLocale]
            ELSE Str(replaceHtmlTag(call.html, call.targetLocale))

RECURSIVE unlocalizableIn(_)
unlocalizableIn(nodes) ==
    IF nodes = <<>> THEN <<>>
    ELSE (IF Head(nodes).nodeType # 1 THEN <<>>
          ELSE IF Head(nodes).tagName \in UNLOCALIZABLE_TAGS
               THEN <<Head(nodes).childNodes>>
               ELSE unlocalizableIn(Head(nodes).childNodes))
         \o unlocalizableIn(Tail(nodes))

\* the characters between the start tag and the end tag of every tag element
\* of the string s from position i on
RECURSIVE elementContents(_, _, _)
elementContents(s, tag, i) ==
    IF i > Len(s) THEN <<>>
    ELSE LET open == <<"<">> \o tag
             close == <<"<", "/">> \o tag \o <<">">>
             gt == indexOf(s, <<">">>, i + Len(open))
             end == IF gt = 0 THEN 0 ELSE indexOf(s, close, gt + 1)
         IN  IF startsWith(s, i, open) /\ end # 0
             THEN <<SubSeq(s, gt + 1, end - 1)>>
                  \o elementContents(s, tag, end + Len(close))
             ELSE elementContents(s, tag, i + 1)

\* the script and style content of a document, tree or string
unlocalizableContent(document) ==
    IF document.t = "document"
    THEN unlocalizableIn(<<document.head, document.body>>)
    ELSE elementContents(document.s, T_script, 1)
         \o elementContents(document.s, <<"s", "t", "y", "l", "e">>, 1)

inputDocument == IF call.domParser THEN call.doc ELSE Str(call.html)

\* the texts inside script and style elements of the input, trimmed (in the
\* documents enumerated they differ from every text outside)
unlocalizableTexts ==
    IF call.domParser
    THEN {trim(n.textContent) :
            n \in UNION {Range(kids) : kids \in Range(unlocalizableContent(call.doc))}}
    ELSE {trim(c) : c \in Range(unlocalizableContent(Str(call.html)))}

\* C15: in both modes localizeHtml sends no text of a script or style
\* element to the remote, and the document it returns has the content of
\* every script and style element of the input unchanged.
C15_ScriptUntouched ==
    call.op = "localizeHtml" =>
        /\ \A x \in DOMAIN requests : \A y \in DOMAIN requests[x].data :
               requests[x].data[y].v.s \notin unlocalizableTexts
        /\ promise.state = "fulfilled" =>
               unlocalizableContent(promise.value)
                   = unlocalizableContent(inputDocument)

\* the language attribute of the root element of a document: the lang field
\* of a tree; in a string the value of the first lang attribute inside the
\* first html start tag ("" when the tag or the attribute is absent)
rootLanguage(document) ==
    IF document.t = "document" THEN document.lang
    ELSE LET s == document.s
             name == <<" ", "l", "a", "n", "g", "=", "\"">>
             open == indexOf(s, <<"<">> \o T_html, 1)
             close == IF open = 0 THEN 0 ELSE indexOf(s, <<">">>, open + 5)
             at == IF close = 0 THEN 0 ELSE indexOf(s, name, open + 5)
         IN  IF at = 0 \/ at > close THEN "" ELSE s[at + Len(name)]

\* C16: the root element of the document returned by a successful
\* localizeHtml carries the target locale as its language attribute, in the
\* DOM mode and in the regex fallback mode, whatever the input document.
C16_RootLanguage ==
    (call.op = "localizeHtml" /\ promise.state = "fulfilled") =>
        rootLanguage(promise.value) = call.targetLocale

\* a document with the language attributes taken out: the lang field of a
\* tree; in a string every run  lang="x"  from position i on
RECURSIVE withoutLang(_, _)
withoutLang(s, i) ==
    IF i > Len(s) THEN <<>>
    ELSE IF startsWith(s, i, <<" ">> \o A_lang \o <<"=", "\"">>)
            /\ i + 8 <= Len(s) /\ s[i + 8] = "\""
         THEN withoutLang(s, i + 9)
         ELSE <<s[i]>> \o withoutLang(s, i + 1)

withoutLanguage(document) ==
    IF document.t = "document" THEN [document EXCEPT !.lang = ""]
    ELSE Str(withoutLang(document.s, 1))

\* C17: when the remote returns every extracted value unchanged, the document
\* localizeHtml produces equals the input document except for the language
\* attribute of the root: every text node, with its leading and trailing
\* whitespace, and every attribute is reproduced exactly.
C17_HtmlRoundTrip ==
    (call.op = "localizeHtml" /\ promise.state = "fulfilled") =>
        withoutLanguage(promise.value) = withoutLanguage(inputDocument)

\* how many times the deprecation warning of class is in log
RECURSIVE warnings(_, _)
warnings(log, class) ==
    IF log = <<>> THEN 0
    ELSE (IF Head(log) = DeprecationWarning(class) THEN 1 ELSE 0)
         + warnings(Tail(log), class)

\* C18: over any sequence of constructions in one process the deprecation
\* warning of ReplexicaEngine, and likewise of LingoEngine, is emitted exactly
\* once, by the first successful construction of that class, and never
\* again; a construction that fails validation emits no warning and leaves
\* the already-warned flags unchanged.
C18_DeprecationOnce ==
    [][/\ \A class \in DeprecatedClasses :
            warnings(console', class)
                = warnings(console, class)
                  + (IF constructed[class] = 0 /\ constructed'[class] = 1
                     THEN 1 ELSE 0)
       /\ Len(console') = Len(console)
                          + (IF \E class \in DeprecatedClasses :
                                   constructed[class] = 0 /\ constructed'[class] = 1
                             THEN 1 ELSE 0)
       /\ constructed' = constructed =>
              hasWarnedDeprecation' = hasWarnedDeprecation]_vars

\* C18 as a state property: a class has warned exactly once when an engine
\* of it exists, and not at all before
C18_WarnedIffConstructed ==
    \A class \in DeprecatedClasses :
        /\ warnings(console, class) = (IF constructed[class] > 0 THEN 1 ELSE 0)
        /\ hasWarnedDeprecation[class] = (constructed[class] > 0)

\* two ReplexicaEngine were constructed, then a construction failed
C18_Witness ==
    /\ constructed["ReplexicaEngine"] = 2
    /\ ret.ok = FALSE
    /\ warnings(console, "ReplexicaEngine") = 1

\* C19: constructing an engine with a missing or empty apiKey fails with
\* 'apiKey is required'; every engine that is constructed holds a non-empty
\* apiKey, batchSize >= 1 and idealBatchItemSize >= 1, with 25, 250 and the
\* fixed default apiUrl for each option the caller left unset.
C19_EngineConfiguration ==
    /\ arg # Undef =>
           /\ ret.ok = (arg.apiKey.t = "string" /\ arg.apiKey.s # <<>>)
           /\ (~ret.ok => ret.error = ApiKeyRequired)
           /\ ret.ok =>
                  /\ config.apiUrl = (IF arg.apiUrl = Undef THEN DefaultApiUrl
                                      ELSE arg.apiUrl)
                  /\ arg.batchSize = Undefined => config.batchSize = 25
                  /\ arg.idealBatchItemSize = Undefined =>
                         config.idealBatchItemSize = 250
    /\ config # NoConfig =>
           /\ config.apiKey.t = "string" /\ config.apiKey.s # <<>>
           /\ config.batchSize >= 1
           /\ config.idealBatchItemSize >= 1

\* the strings at the leaves of a nested value, left to right
RECURSIVE leafStrings(_)
RECURSIVE leafStringsOf(_)
leafStringsOf(entries) ==
    IF entries = <<>> THEN <<>>
    ELSE leafStrings(Head(entries).v) \o leafStringsOf(Tail(entries))

leafStrings(value) ==
    IF value.t \in {"array", "object"} THEN leafStringsOf(value.kids)
    ELSE IF value.t = "string" THEN <<value.s>>
    ELSE <<>>

\* the maximal runs of non-whitespace characters of s, counted at their starts
tokens(s) ==
    Cardinality({x \in DOMAIN s :
                    ~IsWhitespace(s[x]) /\ (x = 1 \/ IsWhitespace(s[x - 1]))})

RECURSIVE sumTokens(_)
sumTokens(strings) ==
    IF strings = <<>> THEN 0
    ELSE tokens(Head(strings)) + sumTokens(Tail(strings))

\* C20: for every nested value built from strings, sequences, mappings and
\* other leaves, countWordsInRecord returns without failing the sum over the
\* leaf strings of their maximal whitespace-delimited non-empty tokens;
\* non-string leaves contribute zero.
C20_CounterFlattening ==
    ret # Undef =>
        /\ ret.ok
        /\ ret.value = sumTokens(leafStrings(arg))

\* a sequence holding a word and a mapping with a padded two-word string and
\* a null was counted
C20_Witness ==
    /\ arg = ArrayOf(<<Str(S_one),
                       Obj(<<Entry(ObjectKey(1), Str(S_tabbed)),
                             Entry(ObjectKey(2), Null)>>)>>)
    /\ ret = Returned(3)

\* the chunk requests the call on slot s has issued so far, in order
requestsOf(s) == SelectSeq(requests, LAMBDA r : r.slot = s /\ r.url = "/i18n")

\* the slots on which a call over _localizeRaw runs or ran
chunkSlots == {s \in DOMAIN runs : runs[s].op \in ChunkOps /\ runs[s].pc # "unused"}

\* requests go out in chunk order, each chunk once; while one is in flight
\* all earlier ones were answered; a successful call issued one per chunk
sequentialSoFar(s) ==
    LET rs == requestsOf(s)
        run == runs[s]
    IN  /\ \A j \in DOMAIN rs : /\ rs[j].chunk = j
                                 /\ j <= Len(run.chunkedPayload)
                                 /\ rs[j].data = run.chunkedPayload[j]
        /\ run.pc = "fetch" =>
               /\ Len(rs) = run.i
               /\ Len(run.processedPayloadChunks) = run.i - 1
        /\ run.raw.state = "fulfilled" =>
               /\ Len(rs) = Len(run.chunkedPayload)
               /\ Len(run.processedPayloadChunks) = Len(run.chunkedPayload)

\* a step issues at most one request per call, and the request for a chunk
\* after the first only on receiving the response for the chunk before it
sequentialStep ==
    \A s \in Slots :
        /\ Len(SelectSeq(requests', LAMBDA r : r.slot = s /\ r.url = "/i18n"))
               <= Len(requestsOf(s)) + 1
        /\ Len(SelectSeq(requests', LAMBDA r : r.slot = s /\ r.url = "/i18n"))
               = Len(requestsOf(s)) + 1
           => \/ runs[s].pc = "unused" /\ runs'[s].i = 1
              \/ /\ runs[s].pc = "fetch"
                 /\ runs'[s].i = runs[s].i + 1
                 /\ Len(runs'[s].processedPayloadChunks) = runs[s].i
                 /\ runs'[s].res # NoResponse

\* C21: within one localization call over N chunks the requests are issued
\* in chunk order, the request for chunk i+1 only after the response for
\* chunk i was received, so at most one request of the call is in flight;
\* each chunk is sent exactly once, N requests on success.
C21_SequentialRequests ==
    /\ [](\A s \in chunkSlots : sequentialSoFar(s))
    /\ [][sequentialStep]_vars

\* a call over two chunks succeeded after two requests
C21_Witness ==
    \E s \in chunkSlots :
        /\ runs[s].raw.state = "fulfilled"
        /\ Len(runs[s].chunkedPayload) = 2
        /\ Len(requestsOf(s)) = 2

\* 100 * done / length rounded in exact arithmetic, a tie going up
roundedExactly(done, length) == (200 * done + length) \div (2 * length)

\* C22: the invocation of the progress callback after chunk i of N carries
\* round(100 * i / N).
C22_ProgressPercentage ==
    ret # Undef => ret.value = roundedExactly(arg.done, arg.length)

\* C22, the order of the reports: with a callback, one report per translated
\* chunk, the i-th with the i-th source chunk and its processed chunk, the
\* percentages non-decreasing and 100 at the end of a successful call
C22_ProgressReports ==
    \A s \in chunkSlots :
        LET run == runs[s]
        IN  /\ Len(run.progress)
                  = (IF run.hasCallback THEN Len(run.processedPayloadChunks) ELSE 0)
            /\ \A j \in DOMAIN run.progress :
                   /\ run.progress[j].sourceChunk = run.chunkedPayload[j]
                   /\ run.progress[j].processedChunk = run.processedPayloadChunks[j]
                   /\ run.progress[j].progress
                          = roundedExactly(j, Len(run.chunkedPayload))
                   /\ j > 1 => run.progress[j - 1].progress <= run.progress[j].progress
            /\ (run.raw.state = "fulfilled" /\ run.progress # <<>>) =>
                   run.progress[Len(run.progress)].progress = 100

\* the translation of the chunk the call on slot s was at has failed: its
\* response was one localizeChunk throws on, or its fetch was aborted
chunkFailed(s) ==
    \/ runs[s].res # NoResponse /\ ~localizeChunk(runs[s].res).ok
    \/ runs[s].raw = Rejected(AbortError)

chunkError(s) ==
    IF runs[s].res # NoResponse /\ ~localizeChunk(runs[s].res).ok
    THEN localizeChunk(runs[s].res).error
    ELSE AbortError

\* the call failed at chunk runs[s].i with that chunk's error and nothing
\* of the chunks before it
failedAtChunk(s) ==
    LET run == runs[s]
    IN  /\ run.pc = "done"
        /\ run.raw = Rejected(chunkError(s))
        /\ run.outcome = Rejected(chunkError(s))
        /\ Len(requestsOf(s)) <= run.i
        /\ \A j \in DOMAIN requestsOf(s) : requestsOf(s)[j].chunk <= run.i
        /\ Len(run.progress) <= run.i - 1
        /\ Len(run.processedPayloadChunks) = run.i - 1

\* C23: if the translation of chunk k fails, the call fails with that
\* chunk's error, no request is issued for a chunk after k, the progress
\* callback is not invoked for chunk k or later, and the caller receives no
\* partial result of the chunks before k; nothing of this changes later.
C23_FirstFailureAborts ==
    /\ [](\A s \in chunkSlots : chunkFailed(s) => failedAtChunk(s))
    /\ [][\A s \in Slots :
              (s \in chunkSlots /\ chunkFailed(s)) => runs'[s] = runs[s]]_vars

\* a call failed at its second chunk after the first was translated
C23_Witness ==
    \E s \in chunkSlots :
        /\ chunkFailed(s)
        /\ runs[s].i = 2
        /\ runs[s].res # NoResponse
        /\ Len(runs[s].processedPayloadChunks) = 1
        /\ Len(requestsOf(s)) = 2
        /\ runs[s].outcome.state = "rejected"

\* C24: every chunk request of one localization call carries the same
\* workflow id, generated once for the call as a token of 12 letters and
\* digits; each per-locale call of batchLocalizeText generates its own.
C24_WorkflowIdPerCall ==
    \A s \in chunkSlots :
        runs[s].chunkedPayload # <<>> =>
            /\ Len(runs[s].workflowId) = 12
            /\ \A j \in 1..12 : runs[s].workflowId[j] \in Range(chars)
            /\ \A j \in DOMAIN requestsOf(s) :
                   requestsOf(s)[j].workflowId = runs[s].workflowId

\* a call sent two chunks; two per-locale calls of one batchLocalizeText
\* run under different ids
C24_Witness ==
    \/ \E s \in chunkSlots : Len(requestsOf(s)) = 2
    \/ /\ call.op = "batchLocalizeText"
       /\ \E s, t \in chunkSlots :
             /\ requestsOf(s) # <<>> /\ requestsOf(t) # <<>>
             /\ runs[s].workflowId # runs[t].workflowId

\* the word count of the first m entries of a chunk
wordsOf(chunk, m) == countWordsInRecord(Obj(SubSeq(chunk, 1, m)))

\* the word budget is exceeded or the item count is reached after m entries
splitTrigger(chunk, m) ==
    \/ wordsOf(chunk, m) > config.idealBatchItemSize
    \/ m >= config.batchSize

\* C25: the chunker closes the current chunk right after adding an entry
\* exactly when the chunk's word count exceeds idealBatchItemSize, or its
\* item count reaches batchSize, or the entry is the last of the payload;
\* hence every chunk but the last holds exactly batchSize entries, or its
\* word count exceeds idealBatchItemSize while without its last entry it
\* does not.
C25_SplitTrigger ==
    ret.t = "array" =>
        \A j \in DOMAIN returnedChunks :
            LET chunk == returnedChunks[j]
                n == Len(chunk)
            IN  /\ \A m \in 1..(n - 1) : ~splitTrigger(chunk, m)
                /\ \/ splitTrigger(chunk, n)
                   \/ j = Len(returnedChunks) /\ chunk[n] = arg[Len(arg)]
                /\ j < Len(returnedChunks) =>
                       \/ n = config.batchSize
                       \/ /\ wordsOf(chunk, n) > config.idealBatchItemSize
                          /\ wordsOf(chunk, n - 1) <= config.idealBatchItemSize

\* a chunk of two entries, fewer than batchSize, was closed by its word count
C25_Witness ==
    /\ ret.t = "array"
    /\ Len(returnedChunks) >= 2
    /\ Len(returnedChunks[1]) = 2
    /\ config.batchSize > 2
    /\ wordsOf(returnedChunks[1], 2) > config.idealBatchItemSize

\* the place in the tree of the node that extraction reached by indices from
\* element: at each level the child that passes the filter at that rank
RECURSIVE recordedLocation(_, _)
recordedLocation(element, indices) ==
    IF indices = <<>> THEN <<>>
    ELSE LET at == contentPositions(element.childNodes, 1)[Head(indices) + 1]
         IN  <<at>> \o recordedLocation(element.childNodes[at], Tail(indices))

\* value written to the node extraction recorded under the key of entry e
writeRecorded(original, doc, e) ==
    LET inHead == e.k.p = "head"
        location == recordedLocation(IF inHead THEN original.head ELSE original.body,
                                     e.k.path)
        node == nodeAt(IF inHead THEN doc.head ELSE doc.body, location)
        written == IF e.k.attribute # "" THEN setAttribute(node, e.k.attribute, e.v.s)
                   ELSE setTextContent(node, e.v.s)
    IN  IF inHead THEN [doc EXCEPT !.head = replaceAt(@, location, written)]
        ELSE [doc EXCEPT !.body = replaceAt(@, location, written)]

RECURSIVE writeAllRecorded(_, _, _)
writeAllRecorded(original, doc, entries) ==
    IF entries = <<>> THEN doc
    ELSE writeAllRecorded(original, writeRecorded(original, doc, Head(entries)),
                          Tail(entries))

\* the localized content of a fulfilled localizeHtml in the DOM mode
htmlLocalized ==
    /\ call.op = "localizeHtml"
    /\ call.domParser
    /\ promise.state = "fulfilled"

\* C26: for every document and every translated value returned for an
\* extracted path, empty and whitespace-only values included, the injection
\* phase of localizeHtml resolves the path to the node that extraction
\* recorded under it, whatever was injected before, and writes the value to
\* that node's text or to the named attribute.
C26_PathSynchronised ==
    htmlLocalized =>
        promise.value = writeAllRecorded(call.doc,
                                         [call.doc EXCEPT !.lang = call.targetLocale],
                                         runs[1].raw.value.kids)

\* the key/value pairs of a mapping
pairsOf(entries) == {entries[x] : x \in DOMAIN entries}

\* C27: the result of a successful localization call is the union of the
\* mappings returned for its chunks, and no key is supplied by the responses
\* of two different chunks, so the merged value of a key does not depend on
\* the order in which the chunk results are merged.
C27_MergeWithoutCollision ==
    \A s \in Slots :
        (runs[s].op \in ChunkOps /\ runs[s].raw.state = "fulfilled") =>
            LET processed == runs[s].processedPayloadChunks IN
            /\ \A x, y \in DOMAIN processed :
                   x # y => Keys(processed[x]) \cap Keys(processed[y]) = {}
            /\ pairsOf(runs[s].raw.value.kids)
                   = UNION {pairsOf(processed[x]) : x \in DOMAIN processed}

\* the target locale of the call on slot s
localeOf(s) ==
    IF call.op = "batchLocalizeText" THEN call.targetLocales[s] ELSE call.targetLocale

\* the call on slot s as it starts when it is the only call
aloneStart(s, id) ==
    IF call.op = "batchLocalizeText"
    THEN startRun("localizeText", call, localeOf(s), FALSE, call.signal, id)
    ELSE startRun(call.op, call, localeOf(s),
                  call.callback /\ AcceptsCallback(call.op),
                  call.signal /\ AcceptsSignal(call.op), id)

\* the chunk request the call on slot s has in flight
ownRequest(s, run) ==
    [slot |-> s, url |-> "/i18n", chunk |-> run.i, workflowId |-> run.workflowId,
     target |-> localeOf(s),
     data |-> extractPayloadChunks(config, payloadOf(run.op, call))[run.i]]

\* in one step the call on slot s stands still, or starts as it does alone,
\* or goes on from a response to its own request as it does alone, or has
\* its fetch rejected by the caller's abort; it issues its own request only
aloneStep(s) ==
    /\ \/ runs'[s] = runs[s]
       \/ /\ runs[s].pc = "unused"
          /\ call.op = "batchLocalizeText" => s <= Len(call.targetLocales)
          /\ \E id \in WorkflowIds : runs'[s] = aloneStart(s, id)
       \/ /\ runs[s].pc = "fetch"
          /\ \E res \in Responses(runs[s]) :
                 runs'[s] = settle(localizeRawResume(runs[s], res, aborted'), call)
       \/ /\ runs[s].pc = "fetch" /\ runs[s].signal /\ ~aborted /\ aborted'
          /\ runs'[s] = settle([runs[s] EXCEPT !.pc = "done",
                                               !.raw = Rejected(AbortError)], call)
    /\ SelectSeq(requests', LAMBDA r : r.slot = s)
           = requestsOf(s)
             \o (IF runs'[s].pc = "fetch" /\ runs'[s] # runs[s]
                 THEN <<ownRequest(s, runs'[s])>> ELSE <<>>)

\* the chunks, progress reports and result of the call on slot s are made of
\* its own payload and the responses to its own requests
aloneSoFar(s) ==
    LET run == runs[s]
    IN  /\ run.targetLocale = localeOf(s)
        /\ run.payload = payloadOf(run.op, call)
        /\ run.chunkedPayload \in {<<>>, extractPayloadChunks(config, run.payload)}
        /\ \A j \in DOMAIN run.progress :
               /\ run.progress[j].sourceChunk = run.chunkedPayload[j]
               /\ run.progress[j].processedChunk = run.processedPayloadChunks[j]
        /\ run.raw.state = "fulfilled" =>
               run.raw.value = Obj(ObjectAssign(<<>>, run.processedPayloadChunks))

siblingFails(s) ==
    /\ runs[s].raw.state # "rejected"
    /\ runs'[s].raw.state = "rejected"
    /\ ~aborted'

\* C29: in batchLocalizeText, when the call for one target locale fails
\* while requests for other target locales are in flight, the library does
\* not abort those requests and they run to completion, unless the caller
\* itself triggers the shared cancellation signal.
C29_SiblingsNotCancelled ==
    /\ []((call.op = "batchLocalizeText" /\ ~aborted) =>
             \A s \in Slots :
                 /\ runs[s].raw # Rejected(AbortError)
                 /\ runs[s].pc = "fetch" => ENABLED ReceiveResponse(s))
    /\ [][call.op = "batchLocalizeText" =>
             \A s, t \in Slots :
                 (s # t /\ siblingFails(s) /\ runs[t].pc = "fetch")
                     => runs'[t] = runs[t]]_vars

\* the batch has failed with the error the remote answered the first
\* locale's request with; the request of the second locale is still in
\* flight and its response can be received; the signal was never aborted
C29_Witness ==
    /\ call.op = "batchLocalizeText"
    /\ ~aborted
    /\ promise.state = "rejected"
    /\ runs[1].raw.state = "rejected"
    /\ runs[1].res # NoResponse
    /\ runs[2].pc = "fetch"
    /\ ENABLED ReceiveResponse(2)

\* the call the caller awaits has returned a result or failed
settled == promise.state \in {"fulfilled", "rejected"}

====
